---- MODULE Spec2Model ----
(***************************************************************************)
(* A model of the elo property-graph service (src/src/main.rs).            *)
(*                                                                         *)
(* Strings are sequences of byte values.  The persistent store is a record *)
(* of the eight redb tables, keyed by the composite keys the key builders  *)
(* produce; the cache is the Graph (id -> Node); the field whitelist is    *)
(* the SchemaCache.  Every HTTP write handler is an operator from a        *)
(* program state to a program state, built from the same transaction and   *)
(* Graph operators the handler calls, in the order it calls them.          *)
(***************************************************************************)
EXTENDS Integers, Sequences, FiniteSets, TLC

(***************************************************************************)
(* Byte strings and the string constants of the source.                    *)
(***************************************************************************)
KEY_SEP == 31
PERCENT == 37

STATUS_KEY == <<115, 116, 97, 116, 117, 115>>
STATUS_ACTIVE == <<97, 99, 116, 105, 118, 101>>
STATUS_DELETED == <<100, 101, 108, 101, 116, 101, 100>>
TYPE_KEY == <<116, 121, 112, 101>>
BLOCK == <<98, 108, 111, 99, 107>>
WEIGHT_KEY == <<119, 101, 105, 103, 104, 116>>
ENTITY_NODE == <<110, 111, 100, 101>>
ENTITY_EDGE == <<101, 100, 103, 101>>

None == [ok |-> FALSE, v |-> <<>>]
Some(x) == [ok |-> TRUE, v |-> x]

\* Byte-wise lexicographic order of two strings (the order of redb's &str keys).
LexLT(s, t) ==
    LET n == IF Len(s) < Len(t) THEN Len(s) ELSE Len(t)
        diff == {i \in 1..n : s[i] # t[i]}
    IN IF diff = {} THEN Len(s) < Len(t)
       ELSE LET i == CHOOSE j \in diff : \A k \in diff : j <= k
            IN s[i] < t[i]

LexLE(s, t) == s = t \/ LexLT(s, t)

StartsWith(s, p) == Len(p) <= Len(s) /\ SubSeq(s, 1, Len(p)) = p

\* The elements of a finite set of strings as a sequence in ascending key order.
RECURSIVE SortedSeq(_)
SortedSeq(S) ==
    IF S = {} THEN <<>>
    ELSE LET m == CHOOSE x \in S : \A y \in S : LexLE(x, y)
         IN <<m>> \o SortedSeq(S \ {m})

(***************************************************************************)
(* Key codec.                                                              *)
(***************************************************************************)
nibble_to_hex(value) ==
    IF value \in 0..9 THEN 48 + value
    ELSE IF value \in 10..15 THEN 65 + (value - 10)
    ELSE 48

hex_to_nibble(value) ==
    IF value \in 48..57 THEN Some(value - 48)
    ELSE IF value \in 97..102 THEN Some(value - 97 + 10)
    ELSE IF value \in 65..70 THEN Some(value - 65 + 10)
    ELSE None

\* Faulty variants that leave '%', or the separator, unescaped.
IsEscapedButPercent(byte) == byte = KEY_SEP \/ byte >= 128

IsEscapedButSeparator(byte) == byte = PERCENT \/ byte >= 128

\* The bytes encode_component escapes.
IsEscaped(byte) == byte = KEY_SEP \/ byte = PERCENT \/ byte >= 128

\* The output of the byte loop from position index on.
RECURSIVE EncodeBytes(_, _)
EncodeBytes(value, index) ==
    IF index > Len(value) THEN <<>>
    ELSE LET byte == value[index]
             out == IF IsEscaped(byte)
                    THEN <<PERCENT, nibble_to_hex(byte \div 16), nibble_to_hex(byte % 16)>>
                    ELSE <<byte>>
         IN out \o EncodeBytes(value, index + 1)

\* A string with no byte to escape comes out byte for byte as it went in.
encode_component(value) ==
    IF \A i \in 1..Len(value) : ~IsEscaped(value[i]) THEN value
    ELSE EncodeBytes(value, 1)

\* String::from_utf8: well-formed one- to four-byte sequences (lead byte and
\* continuation bytes; the overlong and surrogate sub-ranges are not told apart).
RECURSIVE Utf8From(_, _)
Utf8From(bytes, index) ==
    IF index > Len(bytes) THEN TRUE
    ELSE LET b == bytes[index]
             n == IF b < 128 THEN 1
                  ELSE IF b \in 194..223 THEN 2
                  ELSE IF b \in 224..239 THEN 3
                  ELSE IF b \in 240..244 THEN 4
                  ELSE 0
         IN /\ n > 0
            /\ Len(bytes) >= index + n - 1
            /\ \A i \in (index + 1)..(index + n - 1) : bytes[i] \in 128..191
            /\ Utf8From(bytes, index + n)

\* Bytes that are all ASCII are well formed.
IsUtf8(bytes) ==
    IF \A i \in 1..Len(bytes) : bytes[i] < 128 THEN TRUE ELSE Utf8From(bytes, 1)

\* The byte loop of decode_component: the decoded bytes, or None on a malformed escape.
RECURSIVE DecodeBytes(_, _)
DecodeBytes(bytes, index) ==
    IF index > Len(bytes) THEN Some(<<>>)
    ELSE IF bytes[index] = PERCENT
    THEN IF index + 2 > Len(bytes) THEN None
         ELSE LET high == hex_to_nibble(bytes[index + 1])
                  low == hex_to_nibble(bytes[index + 2])
                  rest == DecodeBytes(bytes, index + 3)
              IN IF ~high.ok \/ ~low.ok \/ ~rest.ok THEN None
                 ELSE Some(<<high.v * 16 + low.v>> \o rest.v)
    ELSE LET rest == DecodeBytes(bytes, index + 1)
         IN IF ~rest.ok THEN None ELSE Some(<<bytes[index]>> \o rest.v)

\* A string without '%' decodes to its own bytes.
decode_component(value) ==
    LET decoded == IF \A i \in 1..Len(value) : value[i] # PERCENT
                   THEN Some(value)
                   ELSE DecodeBytes(value, 1)
    IN IF decoded.ok /\ IsUtf8(decoded.v) THEN decoded ELSE None

(***************************************************************************)
(* Composite keys.                                                         *)
(***************************************************************************)
edge_key(from, to) ==
    encode_component(from) \o <<KEY_SEP>> \o encode_component(to)

node_index_key(key, value, node_id) ==
    encode_component(key) \o <<KEY_SEP>> \o encode_component(value)
        \o <<KEY_SEP>> \o encode_component(node_id)

edge_index_key(key, value, from, to) ==
    encode_component(key) \o <<KEY_SEP>> \o encode_component(value)
        \o <<KEY_SEP>> \o encode_component(from) \o <<KEY_SEP>> \o encode_component(to)

geo_index_key(key, value, node_id) ==
    encode_component(key) \o <<KEY_SEP>> \o encode_component(value)
        \o <<KEY_SEP>> \o encode_component(node_id)

node_data_key(node_id, key) ==
    encode_component(node_id) \o <<KEY_SEP>> \o encode_component(key)

edge_data_key(from, to, key) ==
    encode_component(from) \o <<KEY_SEP>> \o encode_component(to)
        \o <<KEY_SEP>> \o encode_component(key)

node_data_prefix(node_id) == encode_component(node_id) \o <<KEY_SEP>>

edge_from_prefix(from) == encode_component(from) \o <<KEY_SEP>>

edge_data_prefix(from, to) ==
    encode_component(from) \o <<KEY_SEP>> \o encode_component(to) \o <<KEY_SEP>>

index_prefix(key, value) ==
    encode_component(key) \o <<KEY_SEP>> \o encode_component(value) \o <<KEY_SEP>>

\* value.splitn(2, KEY_SEP): cut at the first separator only.
split_two(value) ==
    LET seps == {i \in 1..Len(value) : value[i] = KEY_SEP}
    IN IF seps = {} THEN None
       ELSE LET i == CHOOSE j \in seps : \A k \in seps : j <= k
            IN Some(<<SubSeq(value, 1, i - 1), SubSeq(value, i + 1, Len(value))>>)

split_three(value) ==
    LET p == split_two(value)
    IN IF ~p.ok THEN None
       ELSE LET q == split_two(p.v[2])
            IN IF ~q.ok THEN None ELSE Some(<<p.v[1], q.v[1], q.v[2]>>)

split_four(value) ==
    LET p == split_three(value)
    IN IF ~p.ok THEN None
       ELSE LET q == split_two(p.v[3])
            IN IF ~q.ok THEN None ELSE Some(<<p.v[1], p.v[2], q.v[1], q.v[2]>>)

split_two_decoded(value) ==
    LET p == split_two(value)
    IN IF ~p.ok THEN None
       ELSE LET a == decode_component(p.v[1])
                b == decode_component(p.v[2])
            IN IF a.ok /\ b.ok THEN Some(<<a.v, b.v>>) ELSE None

split_three_decoded(value) ==
    LET p == split_three(value)
    IN IF ~p.ok THEN None
       ELSE LET a == decode_component(p.v[1])
                b == decode_component(p.v[2])
                c == decode_component(p.v[3])
            IN IF a.ok /\ b.ok /\ c.ok THEN Some(<<a.v, b.v, c.v>>) ELSE None

split_four_decoded(value) ==
    LET p == split_four(value)
    IN IF ~p.ok THEN None
       ELSE LET a == decode_component(p.v[1])
                b == decode_component(p.v[2])
                c == decode_component(p.v[3])
                d == decode_component(p.v[4])
            IN IF a.ok /\ b.ok /\ c.ok /\ d.ok THEN Some(<<a.v, b.v, c.v, d.v>>) ELSE None

(***************************************************************************)
(* String maps (HashMap<String, String>) and tables.                       *)
(***************************************************************************)
EmptyMap == [k \in {} |-> <<>>]

Put(map, key, value) ==
    [k \in DOMAIN map \cup {key} |-> IF k = key THEN value ELSE map[k]]

Get(map, key) == IF key \in DOMAIN map THEN Some(map[key]) ELSE None

\* table.range(prefix..) read until the first key that does not start with prefix.
RangeScan(keys, prefix) ==
    LET from == {k \in keys : LexLE(prefix, k)}
        stop == {k \in from : ~StartsWith(k, prefix)}
    IN {k \in from \ stop : \A j \in stop : ~LexLT(j, k)}

(***************************************************************************)
(* Write transactions.  Each operator is one committed redb transaction:   *)
(* it maps the store before the commit to the store after it.              *)
(***************************************************************************)
EmptyDb ==
    [nodes |-> {}, edges |-> {}, node_data |-> EmptyMap, edge_data |-> EmptyMap,
     node_index |-> {}, edge_index |-> {}, geo_index |-> {}, schema |-> EmptyMap]

insert_node(db, node_id) ==
    [db EXCEPT !.nodes = @ \cup {encode_component(node_id)}]

insert_edge(db, from, to) ==
    [db EXCEPT !.edges = @ \cup {edge_key(from, to)}]

\* A faulty variant that leaves the row of the previous value in the index.
NodeIndexKeepingPrevious(index, previous, key, value, node_id) ==
    index \cup {node_index_key(key, value, node_id)}

\* The index rows left after removing the row of the previous value, if any.
NodeIndexAfter(index, previous, key, value, node_id) ==
    (IF previous.ok THEN index \ {node_index_key(key, previous.v, node_id)} ELSE index)
        \cup {node_index_key(key, value, node_id)}

GeoIndexAfter(index, previous, key, value, node_id) ==
    (IF previous.ok THEN index \ {geo_index_key(key, previous.v, node_id)} ELSE index)
        \cup {geo_index_key(key, value, node_id)}

\* A faulty variant that leaves the row of the previous value in the index.
EdgeIndexKeepingPrevious(index, previous, key, value, from, to) ==
    index \cup {edge_index_key(key, value, from, to)}

EdgeIndexAfter(index, previous, key, value, from, to) ==
    (IF previous.ok THEN index \ {edge_index_key(key, previous.v, from, to)} ELSE index)
        \cup {edge_index_key(key, value, from, to)}

insert_node_data(db, node_id, key, value) ==
    LET data_key == node_data_key(node_id, key)
        previous == Get(db.node_data, data_key)
    IN [db EXCEPT !.node_data = Put(@, data_key, value),
                  !.node_index = NodeIndexAfter(@, previous, key, value, node_id),
                  !.geo_index = GeoIndexAfter(@, previous, key, value, node_id)]

\* One transaction over all keys of data; the loop body is that of insert_node_data.
RECURSIVE insert_node_data_bulk(_, _, _)
insert_node_data_bulk(db, node_id, data) ==
    IF DOMAIN data = {} THEN db
    ELSE LET key == CHOOSE k \in DOMAIN data : TRUE
             rest == [k \in DOMAIN data \ {key} |-> data[k]]
         IN insert_node_data_bulk(insert_node_data(db, node_id, key, data[key]), node_id, rest)

insert_edge_data(db, from, to, key, value) ==
    LET data_key == edge_data_key(from, to, key)
        previous == Get(db.edge_data, data_key)
    IN [db EXCEPT !.edge_data = Put(@, data_key, value),
                  !.edge_index = EdgeIndexAfter(@, previous, key, value, from, to)]

RECURSIVE insert_edge_data_bulk(_, _, _, _)
insert_edge_data_bulk(db, from, to, data) ==
    IF DOMAIN data = {} THEN db
    ELSE LET key == CHOOSE k \in DOMAIN data : TRUE
             rest == [k \in DOMAIN data \ {key} |-> data[k]]
         IN insert_edge_data_bulk(insert_edge_data(db, from, to, key, data[key]), from, to, rest)

\* The (from, to) pairs of the edges table whose key splits and decodes.
DecodedEdges(db) ==
    {p.v : p \in {split_two_decoded(k) : k \in db.edges} \ {None}}

RECURSIVE MarkEdgesDeleted(_, _)
MarkEdgesDeleted(db, edges_to_delete) ==
    IF edges_to_delete = {} THEN db
    ELSE LET e == CHOOSE x \in edges_to_delete : TRUE
         IN MarkEdgesDeleted(insert_edge_data(db, e[1], e[2], STATUS_KEY, STATUS_DELETED),
                             edges_to_delete \ {e})

\* A faulty variant that marks only the outgoing edges of the node.
mark_outgoing_edges_deleted(db, node_id) ==
    MarkEdgesDeleted(db, {e \in DecodedEdges(db) : e[1] = node_id})

mark_edges_deleted_for_node(db, node_id) ==
    LET edges_to_delete == {e \in DecodedEdges(db) : e[1] = node_id \/ e[2] = node_id}
    IN MarkEdgesDeleted(db, edges_to_delete)

\* [db, deleted]: the store after the call and the boolean it returns.
\* A faulty variant that does not find a node whose status row says deleted.
SoftDeleteNodeOnce(db, node_id) ==
    IF \/ encode_component(node_id) \notin db.nodes
       \/ Get(db.node_data, node_data_key(node_id, STATUS_KEY)) = Some(STATUS_DELETED)
    THEN [db |-> db, deleted |-> FALSE]
    ELSE [db |-> mark_edges_deleted_for_node(
                     insert_node_data(db, node_id, STATUS_KEY, STATUS_DELETED), node_id),
          deleted |-> TRUE]

soft_delete_node(db, node_id) ==
    IF encode_component(node_id) \notin db.nodes
    THEN [db |-> db, deleted |-> FALSE]
    ELSE [db |-> mark_edges_deleted_for_node(
                     insert_node_data(db, node_id, STATUS_KEY, STATUS_DELETED), node_id),
          deleted |-> TRUE]

soft_delete_edge(db, from, to) ==
    IF edge_key(from, to) \notin db.edges
    THEN [db |-> db, deleted |-> FALSE]
    ELSE [db |-> insert_edge_data(db, from, to, STATUS_KEY, STATUS_DELETED),
          deleted |-> TRUE]

\* fields is the normalised field list, as a set; the stored value is the
\* sorted, separator-joined list of the encoded fields.
RECURSIVE JoinSep(_)
JoinSep(parts) ==
    IF parts = <<>> THEN <<>>
    ELSE IF Len(parts) = 1 THEN parts[1]
    ELSE parts[1] \o <<KEY_SEP>> \o JoinSep(Tail(parts))

serialize_schema_fields(fields) ==
    JoinSep(SortedSeq({encode_component(f) : f \in fields}))

\* str::split(sep)
RECURSIVE SplitOn(_, _)
SplitOn(value, sep) ==
    IF \A i \in DOMAIN value : value[i] # sep THEN <<value>>
    ELSE LET i == CHOOSE j \in DOMAIN value :
                      value[j] = sep /\ \A k \in 1..(j - 1) : value[k] # sep
         IN <<SubSeq(value, 1, i - 1)>> \o SplitOn(SubSeq(value, i + 1, Len(value)), sep)

deserialize_schema_fields(value) ==
    LET Decoded(entry) == decode_component(entry).ok /\ decode_component(entry).v # <<>>
        entries == SelectSeq(SplitOn(value, KEY_SEP), Decoded)
    IN IF value = <<>> THEN <<>>
       ELSE [i \in DOMAIN entries |-> decode_component(entries[i]).v]

save_schema(db, entity, fields) ==
    [db EXCEPT !.schema = Put(@, entity, serialize_schema_fields(fields))]

(***************************************************************************)
(* The field whitelist (SchemaCache).                                      *)
(***************************************************************************)
DefaultSchema ==
    [node_fields |-> {}, edge_fields |-> {}, node_defined |-> FALSE, edge_defined |-> FALSE]

node_in_memory(schema, key) == ~schema.node_defined \/ key \in schema.node_fields

edge_in_memory(schema, key) == ~schema.edge_defined \/ key \in schema.edge_fields

\* A faulty variant that lets every key through.
KeepAllNodeData(schema, data) == data

filter_node_data(schema, data) ==
    IF ~schema.node_defined THEN data
    ELSE [k \in DOMAIN data \cap schema.node_fields |-> data[k]]

filter_edge_data(schema, data) ==
    IF ~schema.edge_defined THEN data
    ELSE [k \in DOMAIN data \cap schema.edge_fields |-> data[k]]

(***************************************************************************)
(* The cache (Graph): id -> Node, a Node being its property map and the    *)
(* list of its outgoing edges in insertion order.                          *)
(***************************************************************************)
Range(seq) == {seq[i] : i \in DOMAIN seq}

NewNode == [neighbors |-> <<>>, data |-> EmptyMap]

NewEdge(to) == [to |-> to, data |-> EmptyMap]

NewGraph == [id \in {} |-> NewNode]

add_node(graph, id) ==
    IF id \in DOMAIN graph THEN graph
    ELSE [n \in DOMAIN graph \cup {id} |-> IF n = id THEN NewNode ELSE graph[n]]

\* A faulty variant that finds every node.
HasAnyNode(graph, id) == TRUE

has_node(graph, id) == id \in DOMAIN graph

has_edge(graph, from, to) ==
    /\ from \in DOMAIN graph
    /\ \E i \in DOMAIN graph[from].neighbors : graph[from].neighbors[i].to = to

add_edge(graph, from, to) ==
    IF from \notin DOMAIN graph \/ has_edge(graph, from, to) THEN graph
    ELSE [graph EXCEPT ![from].neighbors = Append(@, NewEdge(to))]

edge_type(graph, from, to) ==
    IF ~has_edge(graph, from, to) THEN None
    ELSE LET i == CHOOSE j \in DOMAIN graph[from].neighbors :
                      /\ graph[from].neighbors[j].to = to
                      /\ \A k \in 1..(j - 1) : graph[from].neighbors[k].to # to
         IN Get(graph[from].neighbors[i].data, TYPE_KEY)

graph_set_node_data(graph, id, key, value) ==
    IF id \notin DOMAIN graph THEN graph
    ELSE [graph EXCEPT ![id].data = Put(@, key, value)]

graph_set_edge_data(graph, from, to, key, value) ==
    IF ~has_edge(graph, from, to) THEN graph
    ELSE LET i == CHOOSE j \in DOMAIN graph[from].neighbors :
                      /\ graph[from].neighbors[j].to = to
                      /\ \A k \in 1..(j - 1) : graph[from].neighbors[k].to # to
         IN [graph EXCEPT ![from].neighbors[i].data = Put(@, key, value)]

\* neighbors.retain(|edge| edge.to != id)
RetainNotTo(neighbors, id) ==
    LET Keep(edge) == edge.to # id
    IN SelectSeq(neighbors, Keep)

remove_edge(graph, from, to) ==
    IF from \notin DOMAIN graph THEN graph
    ELSE [graph EXCEPT ![from].neighbors = RetainNotTo(@, to)]

remove_node(graph, id) ==
    [n \in DOMAIN graph \ {id} |->
        [graph[n] EXCEPT !.neighbors = RetainNotTo(@, id)]]

\* The loops `for (key, value) in data { if schema.*_in_memory(key) { graph.set_*_data } }`.
RECURSIVE SetNodeDataAll(_, _, _, _)
SetNodeDataAll(graph, schema, id, data) ==
    IF DOMAIN data = {} THEN graph
    ELSE LET key == CHOOSE k \in DOMAIN data : TRUE
             rest == [k \in DOMAIN data \ {key} |-> data[k]]
             next == IF node_in_memory(schema, key)
                     THEN graph_set_node_data(graph, id, key, data[key])
                     ELSE graph
         IN SetNodeDataAll(next, schema, id, rest)

RECURSIVE SetEdgeDataAll(_, _, _, _, _)
SetEdgeDataAll(graph, schema, from, to, data) ==
    IF DOMAIN data = {} THEN graph
    ELSE LET key == CHOOSE k \in DOMAIN data : TRUE
             rest == [k \in DOMAIN data \ {key} |-> data[k]]
             next == IF edge_in_memory(schema, key)
                     THEN graph_set_edge_data(graph, from, to, key, data[key])
                     ELSE graph
         IN SetEdgeDataAll(next, schema, from, to, rest)

\* Graph::dfs with its visited set: [found, visited] after the call, and
\* calls, the nodes dfs was called on, in the order of the calls.
RECURSIVE dfs(_, _, _, _)
RECURSIVE DfsNeighbors(_, _, _, _, _)
RECURSIVE DfsNeighborsApart(_, _, _, _, _)
\* A faulty variant that does not hand the visited set of one neighbor's
\* search on to the next neighbor.
DfsNeighborsApart(graph, neighbors, i, target, visited) ==
    IF i > Len(neighbors) THEN [found |-> FALSE, visited |-> visited, calls |-> <<>>]
    ELSE IF neighbors[i].to \in visited
    THEN DfsNeighborsApart(graph, neighbors, i + 1, target, visited)
    ELSE LET r == dfs(graph, neighbors[i].to, target, visited)
             rest == DfsNeighborsApart(graph, neighbors, i + 1, target, visited)
         IN IF r.found THEN r
            ELSE [rest EXCEPT !.calls = r.calls \o @, !.visited = r.visited \cup @]

dfs(graph, current, target, visited) ==
    IF current = target THEN [found |-> TRUE, visited |-> visited, calls |-> <<current>>]
    ELSE LET seen == visited \cup {current}
             Called(r) == [r EXCEPT !.calls = <<current>> \o @]
         IN IF current \in DOMAIN graph
            THEN Called(DfsNeighbors(graph, graph[current].neighbors, 1, target, seen))
            ELSE [found |-> FALSE, visited |-> seen, calls |-> <<current>>]

DfsNeighbors(graph, neighbors, i, target, visited) ==
    IF i > Len(neighbors) THEN [found |-> FALSE, visited |-> visited, calls |-> <<>>]
    ELSE IF neighbors[i].to \in visited
    THEN DfsNeighbors(graph, neighbors, i + 1, target, visited)
    ELSE LET After(r) ==
                 IF r.found THEN r
                 ELSE [DfsNeighbors(graph, neighbors, i + 1, target, r.visited)
                          EXCEPT !.calls = r.calls \o @]
         IN After(dfs(graph, neighbors[i].to, target, visited))

exist_path(graph, start, end) == dfs(graph, start, end, {}).found

(***************************************************************************)
(* Index scans and cache construction.                                     *)
(***************************************************************************)
RECURSIVE NodeIdsOfKeys(_)
NodeIdsOfKeys(keys) ==
    IF keys = <<>> THEN <<>>
    ELSE LET IdOf(p) == IF p.ok THEN decode_component(p.v[3]) ELSE None
             Kept(id) == IF id.ok THEN <<id.v>> ELSE <<>>
         IN Kept(IdOf(split_three(Head(keys)))) \o NodeIdsOfKeys(Tail(keys))

RECURSIVE EdgeIdsOfKeys(_)
EdgeIdsOfKeys(keys) ==
    IF keys = <<>> THEN <<>>
    ELSE LET FromOf(p) == IF p.ok THEN decode_component(p.v[3]) ELSE None
             ToOf(p) == IF p.ok THEN decode_component(p.v[4]) ELSE None
             Kept(from, to) == IF from.ok /\ to.ok THEN <<(<<from.v, to.v>>)>> ELSE <<>>
             Ids(p) == Kept(FromOf(p), ToOf(p))
         IN Ids(split_four(Head(keys))) \o EdgeIdsOfKeys(Tail(keys))

\* The Vec the scan returns, in key order.
list_node_ids_by_index(db, key, value) ==
    NodeIdsOfKeys(SortedSeq(RangeScan(db.node_index, index_prefix(key, value))))

list_edge_ids_by_index(db, key, value) ==
    EdgeIdsOfKeys(SortedSeq(RangeScan(db.edge_index, index_prefix(key, value))))

\* A faulty variant that adds the first edge of the list alone.
AddFirstEdge(graph, edges) ==
    IF edges = <<>> THEN graph ELSE add_edge(graph, Head(edges)[1], Head(edges)[2])

RECURSIVE AddEdges(_, _)
AddEdges(graph, edges) ==
    IF edges = <<>> THEN graph
    ELSE AddEdges(add_edge(graph, Head(edges)[1], Head(edges)[2]), Tail(edges))

RECURSIVE LoadNodeRows(_, _, _, _, _)
LoadNodeRows(graph, keys, db, schema, active_node_set) ==
    IF keys = <<>> THEN graph
    ELSE LET Next(p) ==
                 IF p.ok /\ p.v[1] \in active_node_set /\ node_in_memory(schema, p.v[2])
                 THEN graph_set_node_data(graph, p.v[1], p.v[2], db.node_data[Head(keys)])
                 ELSE graph
         IN LoadNodeRows(Next(split_two_decoded(Head(keys))), Tail(keys), db, schema,
                         active_node_set)

RECURSIVE LoadEdgeRows(_, _, _, _, _)
LoadEdgeRows(graph, keys, db, schema, active_edge_keys) ==
    IF keys = <<>> THEN graph
    ELSE LET Next(p) ==
                 IF /\ p.ok
                    /\ edge_key(p.v[1], p.v[2]) \in active_edge_keys
                    /\ edge_in_memory(schema, p.v[3])
                 THEN graph_set_edge_data(graph, p.v[1], p.v[2], p.v[3],
                                          db.edge_data[Head(keys)])
                 ELSE graph
         IN LoadEdgeRows(Next(split_three_decoded(Head(keys))), Tail(keys), db, schema,
                         active_edge_keys)

load_graph(db, schema) ==
    LET Load(active_nodes, active_edges) ==
            LET active_node_set == Range(active_nodes)
                with_nodes == [id \in active_node_set |-> NewNode]
                BothActive(e) == e[1] \in active_node_set /\ e[2] \in active_node_set
                kept == SelectSeq(active_edges, BothActive)
                active_edge_keys == {edge_key(e[1], e[2]) : e \in Range(kept)}
                with_edges == AddEdges(with_nodes, kept)
                with_node_data == LoadNodeRows(with_edges, SortedSeq(DOMAIN db.node_data),
                                               db, schema, active_node_set)
            IN IF active_nodes = <<>> THEN NewGraph
               ELSE LoadEdgeRows(with_node_data, SortedSeq(DOMAIN db.edge_data),
                                 db, schema, active_edge_keys)
    IN Load(list_node_ids_by_index(db, STATUS_KEY, STATUS_ACTIVE),
            list_edge_ids_by_index(db, STATUS_KEY, STATUS_ACTIVE))

(***************************************************************************)
(* Write handlers.  A program state is [db, graph, schema]; a handler maps *)
(* it, with the request, to the state after the handler has returned and   *)
(* the status code of its response.                                        *)
(***************************************************************************)
\* The startup steps of main between init_db and the construction of the
\* state: each index table that is empty is filled from the data rows that
\* decode.
rebuild_indexes_if_empty(db) ==
    LET NodeRows == {k \in DOMAIN db.node_data : split_two_decoded(k).ok}
        EdgeRows == {k \in DOMAIN db.edge_data : split_three_decoded(k).ok}
        NodeEntry(k) ==
            LET p == split_two_decoded(k).v
            IN node_index_key(p[2], db.node_data[k], p[1])
        GeoEntry(k) ==
            LET p == split_two_decoded(k).v
            IN geo_index_key(p[2], db.node_data[k], p[1])
        EdgeEntry(k) ==
            LET p == split_three_decoded(k).v
            IN edge_index_key(p[3], db.edge_data[k], p[1], p[2])
    IN [db EXCEPT
          !.node_index = IF @ = {} THEN {NodeEntry(k) : k \in NodeRows} ELSE @,
          !.edge_index = IF @ = {} THEN {EdgeEntry(k) : k \in EdgeRows} ELSE @,
          !.geo_index = IF @ = {} THEN {GeoEntry(k) : k \in NodeRows} ELSE @]

\* A faulty variant that writes the status rows and no index row.
BackfillWithoutIndexes(db) ==
    LET NewNodeRows == {node_data_key(decode_component(k).v, STATUS_KEY) :
                           k \in {r \in db.nodes :
                                     ~Get(db.node_data,
                                          node_data_key(decode_component(r).v, STATUS_KEY)).ok}}
    IN [db EXCEPT !.node_data = [k \in DOMAIN @ \cup NewNodeRows |->
                                    IF k \in NewNodeRows THEN STATUS_ACTIVE ELSE @[k]]]

\* Every node and edge row that decodes and has no status row gets the
\* status active, with its index rows.
ensure_status_defaults(db) ==
    LET nodes_with_status ==
            {split_two_decoded(k).v[1] :
                k \in {r \in DOMAIN db.node_data :
                          split_two_decoded(r).ok /\ split_two_decoded(r).v[2] = STATUS_KEY}}
        edges_with_status ==
            {edge_key(split_three_decoded(k).v[1], split_three_decoded(k).v[2]) :
                k \in {r \in DOMAIN db.edge_data :
                          split_three_decoded(r).ok /\ split_three_decoded(r).v[3] = STATUS_KEY}}
        missing_nodes ==
            {decode_component(k).v : k \in {r \in db.nodes : decode_component(r).ok}}
                \ nodes_with_status
        missing_edges ==
            {e \in {split_two_decoded(k).v : k \in {r \in db.edges : split_two_decoded(r).ok}} :
                edge_key(e[1], e[2]) \notin edges_with_status}
        NewNodeRows == {node_data_key(id, STATUS_KEY) : id \in missing_nodes}
        NewEdgeRows == {edge_data_key(e[1], e[2], STATUS_KEY) : e \in missing_edges}
    IN [db EXCEPT
          !.node_data = [k \in DOMAIN @ \cup NewNodeRows |->
                            IF k \in NewNodeRows THEN STATUS_ACTIVE ELSE @[k]],
          !.node_index = @ \cup {node_index_key(STATUS_KEY, STATUS_ACTIVE, id) :
                                    id \in missing_nodes},
          !.geo_index = @ \cup {geo_index_key(STATUS_KEY, STATUS_ACTIVE, id) :
                                   id \in missing_nodes},
          !.edge_data = [k \in DOMAIN @ \cup NewEdgeRows |->
                            IF k \in NewEdgeRows THEN STATUS_ACTIVE ELSE @[k]],
          !.edge_index = @ \cup {edge_index_key(STATUS_KEY, STATUS_ACTIVE, e[1], e[2]) :
                                    e \in missing_edges}]

load_schema(db) ==
    LET Fields(entity) == IF entity \in DOMAIN db.schema
                          THEN Range(deserialize_schema_fields(db.schema[entity]))
                          ELSE {}
    IN [node_fields |-> Fields(ENTITY_NODE), edge_fields |-> Fields(ENTITY_EDGE),
        node_defined |-> Fields(ENTITY_NODE) # {},
        edge_defined |-> Fields(ENTITY_EDGE) # {}]

Reply(db, graph, schema, code) ==
    [db |-> db, graph |-> graph, schema |-> schema, code |-> code]

WithDefaultStatus(data) ==
    IF STATUS_KEY \in DOMAIN data THEN data ELSE Put(data, STATUS_KEY, STATUS_ACTIVE)

IsBlockData(data) == Get(data, TYPE_KEY) = Some(BLOCK)

IsDeletedData(data) == Get(data, STATUS_KEY) = Some(STATUS_DELETED)

\* The reverse-direction write shared by create_edge, create_block, set_edge_data
\* and update_edge_data: insert the row of to->from unless the cache has the edge,
\* then upsert reverse_data on it in the store and in the cache.
MirrorEdge(db, graph, schema, from, to, reverse_data) ==
    LET present == has_edge(graph, to, from)
        db1 == IF present THEN db ELSE insert_edge(db, to, from)
        graph1 == IF present THEN graph ELSE add_edge(graph, to, from)
    IN [db |-> insert_edge_data_bulk(db1, to, from, reverse_data),
        graph |-> SetEdgeDataAll(graph1, schema, to, from, reverse_data)]

create_node(st, id, payload) ==
    LET data == WithDefaultStatus(payload)
        db1 == insert_node(st.db, id)
        graph1 == add_node(st.graph, id)
        db2 == insert_node_data_bulk(db1, id, data)
    IN Reply(db2, SetNodeDataAll(graph1, st.schema, id, data), st.schema, "CREATED")

\* create_edge after `data` is fixed; create_block differs in how it fixes
\* data and in mirroring whatever the type.
CreateEdgeWith(st, from, to, data, mirror) ==
    IF ~has_node(st.graph, from) \/ ~has_node(st.graph, to)
    THEN Reply(st.db, st.graph, st.schema, "NOT_FOUND")
    ELSE LET db1 == insert_edge(st.db, from, to)
             graph1 == add_edge(st.graph, from, to)
             db2 == insert_edge_data_bulk(db1, from, to, data)
             graph2 == SetEdgeDataAll(graph1, st.schema, from, to, data)
             m == MirrorEdge(db2, graph2, st.schema, from, to, data)
         IN IF mirror /\ from # to
            THEN Reply(m.db, m.graph, st.schema, "CREATED")
            ELSE Reply(db2, graph2, st.schema, "CREATED")

create_edge(st, from, to, payload) ==
    LET data == WithDefaultStatus(payload)
    IN CreateEdgeWith(st, from, to, data, IsBlockData(data))

create_block(st, from, to, payload) ==
    CreateEdgeWith(st, from, to, WithDefaultStatus(Put(payload, TYPE_KEY, BLOCK)), TRUE)

set_node_data(st, id, key, value) ==
    IF ~has_node(st.graph, id)
    THEN Reply(st.db, st.graph, st.schema, "NOT_FOUND")
    ELSE LET db1 == insert_node_data(st.db, id, key, value)
             graph1 == IF node_in_memory(st.schema, key)
                       THEN graph_set_node_data(st.graph, id, key, value)
                       ELSE st.graph
             graph2 == IF key = STATUS_KEY /\ value = STATUS_DELETED
                       THEN remove_node(graph1, id)
                       ELSE graph1
         IN Reply(db1, graph2, st.schema, "NO_CONTENT")

set_edge_data(st, from, to, key, value) ==
    IF ~has_edge(st.graph, from, to)
    THEN Reply(st.db, st.graph, st.schema, "NOT_FOUND")
    ELSE LET db1 == insert_edge_data(st.db, from, to, key, value)
             graph1 == IF edge_in_memory(st.schema, key)
                       THEN graph_set_edge_data(st.graph, from, to, key, value)
                       ELSE st.graph
             graph2 == IF key = STATUS_KEY /\ value = STATUS_DELETED
                       THEN remove_edge(graph1, from, to)
                       ELSE graph1
             reverse_data == Put(Put(EmptyMap, TYPE_KEY, BLOCK), STATUS_KEY, STATUS_ACTIVE)
             m == MirrorEdge(db1, graph2, st.schema, from, to, reverse_data)
         IN IF key = TYPE_KEY /\ value = BLOCK /\ from # to
            THEN Reply(m.db, m.graph, st.schema, "NO_CONTENT")
            ELSE Reply(db1, graph2, st.schema, "NO_CONTENT")

update_node_data(st, id, data) ==
    IF ~has_node(st.graph, id)
    THEN Reply(st.db, st.graph, st.schema, "NOT_FOUND")
    ELSE LET db1 == insert_node_data_bulk(st.db, id, data)
             graph1 == SetNodeDataAll(st.graph, st.schema, id, data)
             graph2 == IF IsDeletedData(data) THEN remove_node(graph1, id) ELSE graph1
         IN Reply(db1, graph2, st.schema, "NO_CONTENT")

update_edge_data(st, from, to, data) ==
    IF ~has_edge(st.graph, from, to)
    THEN Reply(st.db, st.graph, st.schema, "NOT_FOUND")
    ELSE LET db1 == insert_edge_data_bulk(st.db, from, to, data)
             graph1 == SetEdgeDataAll(st.graph, st.schema, from, to, data)
             graph2 == IF IsDeletedData(data) THEN remove_edge(graph1, from, to) ELSE graph1
             m == MirrorEdge(db1, graph2, st.schema, from, to, WithDefaultStatus(data))
         IN IF IsBlockData(data) /\ from # to
            THEN Reply(m.db, m.graph, st.schema, "NO_CONTENT")
            ELSE Reply(db1, graph2, st.schema, "NO_CONTENT")

delete_node(st, id) ==
    LET r == soft_delete_node(st.db, id)
    IN IF ~r.deleted THEN Reply(r.db, st.graph, st.schema, "NOT_FOUND")
       ELSE Reply(r.db, remove_node(st.graph, id), st.schema, "NO_CONTENT")

\* delete_edge once is_block is known; delete_block passes TRUE after its own
\* cache check.
DeleteEdgeWith(st, from, to, is_block) ==
    LET r == soft_delete_edge(st.db, from, to)
        db2 == IF is_block /\ from # to THEN soft_delete_edge(r.db, to, from).db ELSE r.db
        graph1 == remove_edge(st.graph, from, to)
        graph2 == IF is_block /\ from # to THEN remove_edge(graph1, to, from) ELSE graph1
    IN IF ~r.deleted THEN Reply(r.db, st.graph, st.schema, "NOT_FOUND")
       ELSE Reply(db2, graph2, st.schema, "NO_CONTENT")

delete_edge(st, from, to) ==
    DeleteEdgeWith(st, from, to, edge_type(st.graph, from, to) = Some(BLOCK))

delete_block(st, from, to) ==
    IF ~has_edge(st.graph, from, to)
    THEN Reply(st.db, st.graph, st.schema, "NOT_FOUND")
    ELSE DeleteEdgeWith(st, from, to, TRUE)

\* fields: the request's field list after trim, as a sequence; a field that is
\* blank after trim is the empty string.
\* str::trim, over ASCII white space: what lies between the first and the
\* last byte that is not white space.
trim(value) ==
    LET kept == {i \in DOMAIN value : value[i] \notin {9, 10, 11, 12, 13, 32}}
    IN IF kept = {} THEN <<>>
       ELSE SubSeq(value, CHOOSE i \in kept : \A j \in kept : i <= j,
                   CHOOSE i \in kept : \A j \in kept : j <= i)

\* str::to_lowercase, over ASCII letters.
to_lowercase(value) ==
    [i \in DOMAIN value |-> IF value[i] \in 65..90 THEN value[i] + 32 ELSE value[i]]

\* A faulty variant that keeps the fields as they came.
KeepFields(raw_fields) == Range(raw_fields)

\* upsert_schema's fields, trimmed and without the empty ones, as the set
\* that sort and dedup leave.
TrimmedFields(raw_fields) ==
    {trim(raw_fields[i]) : i \in DOMAIN raw_fields} \ {<<>>}

upsert_schema(st, raw_entity, raw_fields) ==
    LET entity == to_lowercase(trim(raw_entity))
        fields == TrimmedFields(raw_fields)
        db1 == save_schema(st.db, entity, fields)
        schema1 == IF entity = ENTITY_NODE
                   THEN [st.schema EXCEPT !.node_fields = fields, !.node_defined = TRUE]
                   ELSE [st.schema EXCEPT !.edge_fields = fields, !.edge_defined = TRUE]
    IN IF entity # ENTITY_NODE /\ entity # ENTITY_EDGE
       THEN Reply(st.db, st.graph, st.schema, "BAD_REQUEST")
       ELSE IF fields = {}
       THEN Reply(st.db, st.graph, st.schema, "BAD_REQUEST")
       ELSE Reply(db1, load_graph(db1, schema1), schema1, "NO_CONTENT")

(***************************************************************************)
(* Read paths over the store.  A Vec result is a sequence in the order the *)
(* scan produces it.                                                       *)
(***************************************************************************)
is_active_data(data) ==
    STATUS_KEY \notin DOMAIN data \/ data[STATUS_KEY] = STATUS_ACTIVE

\* node_data rows whose decoded id is node_id, over the whole table (get_node_from_db).
RECURSIVE NodeDataById(_, _, _, _)
NodeDataById(acc, keys, db, node_id) ==
    IF keys = <<>> THEN acc
    ELSE LET p == split_two(Head(keys))
             id == IF p.ok THEN decode_component(p.v[1]) ELSE None
             data_key == IF id.ok /\ id.v = node_id THEN decode_component(p.v[2]) ELSE None
             next == IF data_key.ok THEN Put(acc, data_key.v, db.node_data[Head(keys)]) ELSE acc
         IN NodeDataById(next, Tail(keys), db, node_id)

\* edge_data rows whose decoded from is node_id, keyed by edge_key (get_node_from_db).
RECURSIVE EdgeDataByFromId(_, _, _, _)
EdgeDataByFromId(acc, keys, db, node_id) ==
    IF keys = <<>> THEN acc
    ELSE LET p == split_three(Head(keys))
             from == IF p.ok THEN decode_component(p.v[1]) ELSE None
             to == IF from.ok /\ from.v = node_id THEN decode_component(p.v[2]) ELSE None
             data_key == IF to.ok THEN decode_component(p.v[3]) ELSE None
             ek == edge_key(from.v, to.v)
             old == IF ek \in DOMAIN acc THEN acc[ek] ELSE EmptyMap
             next == IF data_key.ok
                     THEN Put(acc, ek, Put(old, data_key.v, db.edge_data[Head(keys)]))
                     ELSE acc
         IN EdgeDataByFromId(next, Tail(keys), db, node_id)

RECURSIVE EdgeViewsById(_, _, _, _, _)
EdgeViewsById(keys, edge_data, node_id, schema, hydrate) ==
    IF keys = <<>> THEN <<>>
    ELSE LET p == split_two(Head(keys))
             from == IF p.ok THEN decode_component(p.v[1]) ELSE None
             to == IF from.ok /\ from.v = node_id THEN decode_component(p.v[2]) ELSE None
             ek == edge_key(from.v, to.v)
             data == IF to.ok /\ ek \in DOMAIN edge_data THEN edge_data[ek] ELSE EmptyMap
             view == [to |-> to.v,
                      data |-> IF hydrate THEN data ELSE filter_edge_data(schema, data)]
         IN (IF to.ok /\ is_active_data(data) THEN <<view>> ELSE <<>>)
                \o EdgeViewsById(Tail(keys), edge_data, node_id, schema, hydrate)

get_node_from_db(db, node_id, schema, hydrate) ==
    LET data == NodeDataById(EmptyMap, SortedSeq(DOMAIN db.node_data), db, node_id)
        edge_data == EdgeDataByFromId(EmptyMap, SortedSeq(DOMAIN db.edge_data), db, node_id)
        edges == EdgeViewsById(SortedSeq(db.edges), edge_data, node_id, schema, hydrate)
    IN IF encode_component(node_id) \notin db.nodes THEN None
       ELSE IF ~is_active_data(data) THEN None
       ELSE Some([id |-> node_id,
                  data |-> IF hydrate THEN data ELSE filter_node_data(schema, data),
                  edges |-> edges])

RECURSIVE NodeDataRows(_, _, _)
NodeDataRows(acc, keys, db) ==
    IF keys = <<>> THEN acc
    ELSE LET p == split_two(Head(keys))
             data_key == IF p.ok THEN decode_component(p.v[2]) ELSE None
             next == IF data_key.ok THEN Put(acc, data_key.v, db.node_data[Head(keys)]) ELSE acc
         IN NodeDataRows(next, Tail(keys), db)

load_node_data_for_id(db, node_id) ==
    NodeDataRows(EmptyMap,
                 SortedSeq(RangeScan(DOMAIN db.node_data, node_data_prefix(node_id))), db)

\* to -> property map of the edge, from the rows under the prefix of `from`.
RECURSIVE EdgeDataRowsByTo(_, _, _)
EdgeDataRowsByTo(acc, keys, db) ==
    IF keys = <<>> THEN acc
    ELSE LET p == split_three(Head(keys))
             to == IF p.ok THEN decode_component(p.v[2]) ELSE None
             data_key == IF to.ok THEN decode_component(p.v[3]) ELSE None
             old == IF to.v \in DOMAIN acc THEN acc[to.v] ELSE EmptyMap
             next == IF data_key.ok
                     THEN Put(acc, to.v, Put(old, data_key.v, db.edge_data[Head(keys)]))
                     ELSE acc
         IN EdgeDataRowsByTo(next, Tail(keys), db)

load_edge_data_for_from(db, from) ==
    EdgeDataRowsByTo(EmptyMap,
                     SortedSeq(RangeScan(DOMAIN db.edge_data, edge_from_prefix(from))), db)

RECURSIVE EdgeDataRows(_, _, _)
EdgeDataRows(acc, keys, db) ==
    IF keys = <<>> THEN acc
    ELSE LET p == split_three(Head(keys))
             data_key == IF p.ok THEN decode_component(p.v[3]) ELSE None
             next == IF data_key.ok THEN Put(acc, data_key.v, db.edge_data[Head(keys)]) ELSE acc
         IN EdgeDataRows(next, Tail(keys), db)

load_edge_data_for_edge(db, from, to) ==
    EdgeDataRows(EmptyMap,
                 SortedSeq(RangeScan(DOMAIN db.edge_data, edge_data_prefix(from, to))), db)

\* The edge list of one node in list_nodes_from_db / list_nodes_by_geo_prefix.
RECURSIVE EdgeViewsByPrefix(_, _, _, _, _)
EdgeViewsByPrefix(keys, edge_data, active_set, schema, hydrate) ==
    IF keys = <<>> THEN <<>>
    ELSE LET p == split_two(Head(keys))
             to == IF p.ok THEN decode_component(p.v[2]) ELSE None
             data == IF to.ok /\ to.v \in DOMAIN edge_data THEN edge_data[to.v] ELSE EmptyMap
             view == [to |-> to.v,
                      data |-> IF hydrate THEN data ELSE filter_edge_data(schema, data)]
         IN (IF to.ok /\ to.v \in active_set /\ is_active_data(data) THEN <<view>> ELSE <<>>)
                \o EdgeViewsByPrefix(Tail(keys), edge_data, active_set, schema, hydrate)

RECURSIVE NodeViews(_, _, _, _, _, _)
NodeViews(node_ids, db, node_type, active_set, schema, hydrate) ==
    IF node_ids = <<>> THEN <<>>
    ELSE LET node_id == Head(node_ids)
             data == load_node_data_for_id(db, node_id)
             edge_data == load_edge_data_for_from(db, node_id)
             edges == EdgeViewsByPrefix(
                          SortedSeq(RangeScan(db.edges, edge_from_prefix(node_id))),
                          edge_data, active_set, schema, hydrate)
             view == [id |-> node_id,
                      data |-> IF hydrate THEN data ELSE filter_node_data(schema, data),
                      edges |-> edges]
             keep == /\ encode_component(node_id) \in db.nodes
                     /\ is_active_data(data)
                     /\ node_type.ok => Get(data, TYPE_KEY) = Some(node_type.v)
         IN (IF keep THEN <<view>> ELSE <<>>)
                \o NodeViews(Tail(node_ids), db, node_type, active_set, schema, hydrate)

\* node_type is None or Some(type).
list_nodes_from_db(db, node_type, schema, hydrate) ==
    LET active_nodes == list_node_ids_by_index(db, STATUS_KEY, STATUS_ACTIVE)
        active_set == Range(active_nodes)
        InActive(id) == id \in active_set
        node_ids == IF node_type.ok
                    THEN SelectSeq(list_node_ids_by_index(db, TYPE_KEY, node_type.v), InActive)
                    ELSE active_nodes
    IN NodeViews(node_ids, db, node_type, active_set, schema, hydrate)

\* list_edges_from_db with a type: the edges of the type index.
RECURSIVE EdgeListTyped(_, _, _, _, _, _, _)
EdgeListTyped(edges, db, active_edge_keys, from_filter, to_filter, schema, hydrate) ==
    IF edges = <<>> THEN <<>>
    ELSE LET from_id == Head(edges)[1]
             to_id == Head(edges)[2]
             data == load_edge_data_for_edge(db, from_id, to_id)
             keep == /\ edge_key(from_id, to_id) \in active_edge_keys
                     /\ from_filter.ok => from_id = from_filter.v
                     /\ to_filter.ok => to_id = to_filter.v
                     /\ edge_key(from_id, to_id) \in db.edges
             view == [from |-> from_id, to |-> to_id,
                      data |-> IF hydrate THEN data ELSE filter_edge_data(schema, data)]
         IN (IF keep THEN <<view>> ELSE <<>>)
                \o EdgeListTyped(Tail(edges), db, active_edge_keys, from_filter, to_filter,
                                 schema, hydrate)

\* ... with a from filter and no type: the edges table under the prefix of from.
RECURSIVE EdgeListFrom(_, _, _, _, _, _, _)
EdgeListFrom(keys, edge_data, active_edge_keys, from_filter, to_filter, schema, hydrate) ==
    IF keys = <<>> THEN <<>>
    ELSE LET p == split_two(Head(keys))
             to == IF p.ok THEN decode_component(p.v[2]) ELSE None
             data == IF to.ok /\ to.v \in DOMAIN edge_data THEN edge_data[to.v] ELSE EmptyMap
             keep == /\ to.ok
                     /\ to_filter.ok => to.v = to_filter.v
                     /\ edge_key(from_filter, to.v) \in active_edge_keys
                     /\ is_active_data(data)
             view == [from |-> from_filter, to |-> to.v,
                      data |-> IF hydrate THEN data ELSE filter_edge_data(schema, data)]
         IN (IF keep THEN <<view>> ELSE <<>>)
                \o EdgeListFrom(Tail(keys), edge_data, active_edge_keys, from_filter, to_filter,
                                schema, hydrate)

\* ... with neither: the whole edge_data table, keyed by edge_key, then the
\* whole edges table.
RECURSIVE AllEdgeData(_, _, _)
AllEdgeData(acc, keys, db) ==
    IF keys = <<>> THEN acc
    ELSE LET p == split_three_decoded(Head(keys))
             ek == edge_key(p.v[1], p.v[2])
             old == IF ek \in DOMAIN acc THEN acc[ek] ELSE EmptyMap
             next == IF p.ok THEN Put(acc, ek, Put(old, p.v[3], db.edge_data[Head(keys)]))
                     ELSE acc
         IN AllEdgeData(next, Tail(keys), db)

RECURSIVE EdgeListAll(_, _, _, _, _, _)
EdgeListAll(keys, edge_data, active_edge_keys, to_filter, schema, hydrate) ==
    IF keys = <<>> THEN <<>>
    ELSE LET p == split_two_decoded(Head(keys))
             ek == edge_key(p.v[1], p.v[2])
             data == IF p.ok /\ ek \in DOMAIN edge_data THEN edge_data[ek] ELSE EmptyMap
             keep == /\ p.ok
                     /\ ek \in active_edge_keys
                     /\ to_filter.ok => p.v[2] = to_filter.v
                     /\ is_active_data(data)
             view == [from |-> p.v[1], to |-> p.v[2],
                      data |-> IF hydrate THEN data ELSE filter_edge_data(schema, data)]
         IN (IF keep THEN <<view>> ELSE <<>>)
                \o EdgeListAll(Tail(keys), edge_data, active_edge_keys, to_filter, schema, hydrate)

\* type_filter (the edge_type argument), from_filter and to_filter are None or Some(string).
list_edges_from_db(db, type_filter, from_filter, to_filter, schema, hydrate) ==
    LET active_edges == list_edge_ids_by_index(db, STATUS_KEY, STATUS_ACTIVE)
        active_edge_keys == {edge_key(e[1], e[2]) : e \in Range(active_edges)}
    IN IF active_edges = <<>> THEN <<>>
       ELSE IF type_filter.ok
       THEN EdgeListTyped(list_edge_ids_by_index(db, TYPE_KEY, type_filter.v), db,
                          active_edge_keys, from_filter, to_filter, schema, hydrate)
       ELSE IF from_filter.ok
       THEN EdgeListFrom(SortedSeq(RangeScan(db.edges, edge_from_prefix(from_filter.v))),
                         load_edge_data_for_from(db, from_filter.v),
                         active_edge_keys, from_filter.v, to_filter, schema, hydrate)
       ELSE EdgeListAll(SortedSeq(db.edges),
                        AllEdgeData(EmptyMap, SortedSeq(DOMAIN db.edge_data), db),
                        active_edge_keys, to_filter, schema, hydrate)

\* The read handlers: a not-found reply is None.
\* query.hydrate.unwrap_or(true)
hydrate_or_default(hydrate) == IF hydrate.ok THEN hydrate.v ELSE TRUE

get_node(st, id, hydrate) == get_node_from_db(st.db, id, st.schema, hydrate)

list_nodes(st, node_type, hydrate) == list_nodes_from_db(st.db, node_type, st.schema, hydrate)

list_edges(st, type_filter, from_filter, to_filter, hydrate) ==
    list_edges_from_db(st.db, type_filter, from_filter, to_filter, st.schema, hydrate)

check_path(st, from, to) == exist_path(st.graph, from, to)

(***************************************************************************)
(* Two-hop recommendation over the cache.  An f64 is a record: either the  *)
(* not-a-number value, or a whole number (the numbers of the requests are  *)
(* decimal integers, on which f64 arithmetic is exact).                    *)
(***************************************************************************)
COMMA == 44
NUM_KEY_DEFAULT == <<114, 97, 116, 105, 110, 103>>
NAN_TEXT == <<110, 97, 110>>

NaN == [nan |-> TRUE, v |-> 0]
Num(n) == [nan |-> FALSE, v |-> n]
FAdd(a, b) == IF a.nan \/ b.nan THEN NaN ELSE Num(a.v + b.v)
FMul(a, b) == IF a.nan \/ b.nan THEN NaN ELSE Num(a.v * b.v)
\* a < b on f64: false as soon as one side is not a number.
FLt(a, b) == ~a.nan /\ ~b.nan /\ a.v < b.v

\* str::parse::<f64> on an optionally signed run of decimal digits, and on
\* "nan" in any letter case; any other text of the requests does not parse.
RECURSIVE DigitsValue(_)
DigitsValue(digits) ==
    IF digits = <<>> THEN 0
    ELSE 10 * DigitsValue(SubSeq(digits, 1, Len(digits) - 1)) + (digits[Len(digits)] - 48)

parse_f64(value) ==
    LET signed == value # <<>> /\ value[1] \in {43, 45}
        digits == IF signed THEN Tail(value) ELSE value
    IN IF to_lowercase(digits) = NAN_TEXT THEN Some(NaN)
       ELSE IF digits = <<>> \/ \E i \in DOMAIN digits : digits[i] \notin 48..57 THEN None
       ELSE Some(Num(IF signed /\ value[1] = 45 THEN 0 - DigitsValue(digits)
                     ELSE DigitsValue(digits)))

\* A faulty variant that takes every weight for 1.
UnitWeight(edge) == Num(1)

edge_weight(edge) ==
    LET parsed == IF WEIGHT_KEY \in DOMAIN edge.data THEN parse_f64(edge.data[WEIGHT_KEY])
                  ELSE None
    IN IF parsed.ok THEN parsed.v ELSE Num(1)

\* A faulty variant that leaves the blanks around the items.
SplitUntrimmed(value) ==
    LET items == SplitOn(IF value.ok THEN value.v ELSE <<>>, COMMA)
    IN {items[i] : i \in DOMAIN items} \ {<<>>}

parse_csv_set(value) ==
    LET items == SplitOn(IF value.ok THEN value.v ELSE <<>>, COMMA)
    IN {trim(items[i]) : i \in DOMAIN items} \ {<<>>}

\* A faulty variant that excludes no edge.
NoEdgeExcluded(edge, excluded) == FALSE

is_edge_type_excluded(edge, excluded) ==
    TYPE_KEY \in DOMAIN edge.data /\ edge.data[TYPE_KEY] \in excluded

\* The inner loop of recommend_nodes: scores after the edges j.. of the
\* node that the first edge, of weight weight1, leads to.
RECURSIVE ScoreSecondEdges(_, _, _, _, _)
ScoreSecondEdges(scores, neighbors, j, weight1, q) ==
    IF j > Len(neighbors) THEN scores
    ELSE LET edge2 == neighbors[j]
             candidate == edge2.to
             skip == \/ is_edge_type_excluded(edge2, q.excluded_edge_types)
                     \/ candidate = q.start
                     \/ candidate \in q.blocked_targets
                     \/ candidate \in q.excluded_ids
                     \/ candidate \in q.direct_neighbors
             old == IF candidate \in DOMAIN scores THEN scores[candidate] ELSE Num(0)
             next == IF skip THEN scores
                     ELSE Put(scores, candidate,
                              FAdd(old, FMul(weight1, edge_weight(edge2))))
         IN ScoreSecondEdges(next, neighbors, j + 1, weight1, q)

\* The outer loop: scores after the edges i.. of the start node.
RECURSIVE ScoreFirstEdges(_, _, _, _, _)
ScoreFirstEdges(scores, g, neighbors, i, q) ==
    IF i > Len(neighbors) THEN scores
    ELSE LET edge == neighbors[i]
             next == IF is_edge_type_excluded(edge, q.excluded_edge_types)
                        \/ edge.to \notin DOMAIN g
                     THEN scores
                     ELSE ScoreSecondEdges(scores, g[edge.to].neighbors, 1,
                                           edge_weight(edge), q)
         IN ScoreFirstEdges(next, g, neighbors, i + 1, q)

\* The comparator of results.sort_by: left is ordered before right.
SortsBefore(left, right) ==
    \/ FLt(right.score, left.score)
    \/ ~FLt(left.score, right.score) /\ LexLT(left.id, right.id)

\* A faulty variant that orders by id alone.
SortsBeforeById(left, right) == LexLT(left.id, right.id)

\* results.sort_by on a short vector: a stable insertion sort, each item
\* moving left past the items it is ordered before.
RECURSIVE InsertRecommendation(_, _)
InsertRecommendation(sorted, item) ==
    IF sorted = <<>> \/ ~SortsBefore(item, sorted[Len(sorted)]) THEN Append(sorted, item)
    ELSE Append(InsertRecommendation(SubSeq(sorted, 1, Len(sorted) - 1), item),
                sorted[Len(sorted)])

RECURSIVE SortRecommendations(_)
SortRecommendations(items) ==
    IF items = <<>> THEN <<>>
    ELSE InsertRecommendation(SortRecommendations(SubSeq(items, 1, Len(items) - 1)),
                              items[Len(items)])

\* load_node_data_for_ids, and the replacement of each item's data by what
\* it found.
HydrateRecommendations(db, results) ==
    [i \in DOMAIN results |->
        LET data == load_node_data_for_id(db, results[i].id)
        IN IF is_active_data(data) THEN [results[i] EXCEPT !.data = data] ELSE results[i]]

GEO_KEY_DEFAULT == <<108, 111, 99, 97, 116, 105, 111, 110>>

\* "lat,lon" as a pair of f64, within the ranges of a latitude and a
\* longitude; the comparisons are those of f64.
parse_geo_point(value) ==
    LET parts == SplitOn(value, COMMA)
        lat == parse_f64(trim(parts[1]))
        lon == parse_f64(trim(parts[2]))
    IN IF Len(parts) < 2 THEN None
       ELSE IF ~lat.ok \/ ~lon.ok THEN None
       ELSE IF \/ FLt(lat.v, Num(0 - 90)) \/ FLt(Num(90), lat.v)
               \/ FLt(lon.v, Num(0 - 180)) \/ FLt(Num(180), lon.v) THEN None
       ELSE Some(<<lat.v, lon.v>>)

\* 6371 km times pi / 180, to the metre: the length of one degree of a
\* great circle.
METRES_PER_DEGREE == 111195

\* haversine_km in metres, for two points of the same longitude: their
\* central angle is the difference of their latitudes.  A coordinate that
\* is not a number makes the distance not a number.
haversine_km(origin, point) ==
    IF origin[1].nan \/ origin[2].nan \/ point[1].nan \/ point[2].nan THEN NaN
    ELSE LET dlat == point[1].v - origin[1].v
         IN Num(METRES_PER_DEGREE * (IF dlat < 0 THEN 0 - dlat ELSE dlat))

\* A faulty variant that puts every point at the origin.
NoDistance(origin, point) == Num(0)

\* A radius is a whole number of hundred-thousandths of a kilometre, the
\* unit of the finest size of the table.
KM == 100000

\* The sizes of geohash_precision_for_km, each with its precision, in the
\* order of the array.
GeohashSizes ==
    << <<1, 5000 * KM>>, <<2, 1250 * KM>>, <<3, 156 * KM>>, <<4, 3910000>>, <<5, 489000>>,
       <<6, 122000>>, <<7, 15300>>, <<8, 3820>>, <<9, 477>> >>

\* A faulty variant that ends with the finest precision when no size fits.
PrecisionEndingFinest(radius_km) ==
    IF radius_km <= 0 THEN 9
    ELSE IF \E i \in DOMAIN GeohashSizes : GeohashSizes[i][2] >= radius_km THEN 1
    ELSE 9

\* The precision of the first size of the array that is at least the
\* radius.
geohash_precision_for_km(radius_km) ==
    IF radius_km <= 0 THEN 9
    ELSE LET fits == {i \in DOMAIN GeohashSizes : GeohashSizes[i][2] >= radius_km}
         IN IF fits = {} THEN 1
            ELSE GeohashSizes[CHOOSE i \in fits : \A j \in fits : i <= j][1]

\* The scores map of recommend_nodes, one entry per two-hop candidate.
RecommendationScoresOf(st, query) ==
    LET g == st.graph
        start == g[query.start]
        excluded_edge_types == parse_csv_set(query.exclude_edge_types)
        Excluded(edge) == is_edge_type_excluded(edge, excluded_edge_types)
        q == [start |-> query.start,
              excluded_edge_types |-> excluded_edge_types,
              excluded_ids |-> parse_csv_set(query.exclude_ids),
              blocked_targets |-> {edge.to : edge \in {e \in Range(start.neighbors) : Excluded(e)}},
              direct_neighbors |->
                  {edge.to : edge \in {e \in Range(start.neighbors) : ~Excluded(e)}}]
    IN IF query.start \notin DOMAIN g THEN EmptyMap
       ELSE ScoreFirstEdges(EmptyMap, g, start.neighbors, 1, q)

\* The sequences in which a HashMap holding the keys may hand them out.
IterationOrders(keys) ==
    {order \in [1..Cardinality(keys) -> keys] :
        \A i, j \in DOMAIN order : i # j => order[i] # order[j]}

\* recommend_nodes, the scores map being iterated in the given order.
recommend_nodes(st, query, order) ==
    LET g == st.graph
        scores == RecommendationScoresOf(st, query)
        num_key == IF query.num_key.ok THEN query.num_key.v ELSE NUM_KEY_DEFAULT
        Value(id) == IF num_key \in DOMAIN g[id].data THEN parse_f64(g[id].data[num_key])
                     ELSE None
        geo_key == IF query.geo_key.ok THEN query.geo_key.v ELSE GEO_KEY_DEFAULT
        Point(id) == IF geo_key \in DOMAIN g[id].data THEN parse_geo_point(g[id].data[geo_key])
                     ELSE None
        start_point == IF query.lat.ok /\ query.lon.ok THEN Some(<<query.lat.v, query.lon.v>>)
                       ELSE Point(query.start)
        Keep(id) ==
            /\ id \in DOMAIN g
            /\ Get(g[id].data, TYPE_KEY) = Some(query.type)
            /\ (query.min.ok \/ query.max.ok) =>
                  /\ Value(id).ok
                  /\ query.min.ok => ~FLt(Value(id).v, query.min.v)
                  /\ query.max.ok => ~FLt(query.max.v, Value(id).v)
            /\ (query.radius_km.ok /\ start_point.ok) =>
                  /\ Point(id).ok
                  /\ ~FLt(FMul(Num(1000), query.radius_km.v),
                          haversine_km(start_point.v, Point(id).v))
        kept == SelectSeq(order, Keep)
        sorted == SortRecommendations(
                      [i \in DOMAIN kept |->
                          [id |-> kept[i], score |-> scores[kept[i]], data |-> g[kept[i]].data]])
        results == IF query.limit.ok /\ query.limit.v < Len(sorted)
                   THEN SubSeq(sorted, 1, query.limit.v)
                   ELSE sorted
    IN IF query.start \notin DOMAIN g THEN [code |-> "NOT_FOUND", results |-> <<>>]
       ELSE IF query.radius_km.ok /\ ~start_point.ok
       THEN [code |-> "BAD_REQUEST", results |-> <<>>]
       ELSE [code |-> "OK",
             results |-> IF hydrate_or_default(query.hydrate)
                         THEN HydrateRecommendations(st.db, results)
                         ELSE results]

(***************************************************************************)
(* Nearby nodes by geohash prefix.                                         *)
(***************************************************************************)
GEO_HASH_KEY_DEFAULT == <<103, 101, 111, 95, 104, 97, 115, 104>>
BASE32 ==
    <<48, 49, 50, 51, 52, 53, 54, 55, 56, 57, 98, 99, 100, 101, 102, 103, 104, 106, 107,
      109, 110, 112, 113, 114, 115, 116, 117, 118, 119, 120, 121, 122>>

\* A coordinate is a whole number of degrees; the bounds of the ranges that
\* encode_geohash halves are whole numbers of 2^-22 degrees, which up to 45
\* bits they stay.
DEGREE == 4194304

\* The loop of encode_geohash: the characters still to come when the
\* geohash has `done` of them, the character under way being ch after bit
\* of its bits.
RECURSIVE GeohashFrom(_, _, _, _, _, _, _, _, _)
GeohashFrom(lat, lon, precision, done, lat_range, lon_range, bit, ch, even) ==
    IF done >= precision THEN <<>>
    ELSE LET range == IF even THEN lon_range ELSE lat_range
             value == IF even THEN lon ELSE lat
             mid == (range[1] + range[2]) \div 2
             above == ~value.nan /\ value.v * DEGREE >= mid
             bits == <<16, 8, 4, 2, 1>>
             next_ch == IF above THEN ch + bits[bit + 1] ELSE ch
             next_range == IF above THEN <<mid, range[2]>> ELSE <<range[1], mid>>
             next_lat == IF even THEN lat_range ELSE next_range
             next_lon == IF even THEN next_range ELSE lon_range
         IN IF bit < 4
            THEN GeohashFrom(lat, lon, precision, done, next_lat, next_lon, bit + 1,
                             next_ch, ~even)
            ELSE <<BASE32[next_ch + 1]>>
                     \o GeohashFrom(lat, lon, precision, done + 1, next_lat, next_lon, 0, 0,
                                    ~even)

encode_geohash(lat, lon, precision) ==
    GeohashFrom(lat, lon, IF precision < 1 THEN 1 ELSE precision, 0,
                <<(0 - 90) * DEGREE, 90 * DEGREE>>, <<(0 - 180) * DEGREE, 180 * DEGREE>>,
                0, 0, TRUE)

geo_index_prefix(key, prefix) ==
    encode_component(key) \o <<KEY_SEP>> \o encode_component(prefix)

list_node_ids_by_geo_prefix(db, key, prefix_value) ==
    NodeIdsOfKeys(SortedSeq(RangeScan(db.geo_index, geo_index_prefix(key, prefix_value))))

\* nodes.sort_by on the ids: a stable insertion sort.
RECURSIVE SortViewsById(_)
SortViewsById(views) ==
    IF views = <<>> THEN <<>>
    ELSE LET item == views[Len(views)]
             front == SortViewsById(SubSeq(views, 1, Len(views) - 1))
             before == SelectSeq(front, LAMBDA v : ~LexLT(item.id, v.id))
             after == SelectSeq(front, LAMBDA v : LexLT(item.id, v.id))
         IN before \o <<item>> \o after

\* vec.truncate(limit) under an Option.
Truncated(items, limit) ==
    IF limit.ok /\ limit.v < Len(items) THEN SubSeq(items, 1, limit.v) ELSE items

list_nodes_by_geo_prefix(db, node_type, geo_key, geo_prefix, limit, schema, hydrate) ==
    LET active_nodes == list_node_ids_by_index(db, STATUS_KEY, STATUS_ACTIVE)
        active_set == Range(active_nodes)
        InActive(id) == id \in active_set
        node_ids == SelectSeq(list_node_ids_by_geo_prefix(db, geo_key, geo_prefix), InActive)
    IN Truncated(SortViewsById(NodeViews(node_ids, db, Some(node_type), active_set, schema,
                                         hydrate)),
                 limit)

\* A faulty variant that hands the limit to the scan whatever is excluded.
LimitInScan(limit, excluded_ids) == limit

\* The limit list_nearby hands to the scan.
db_limit(limit, excluded_ids) == IF excluded_ids = {} THEN limit ELSE None

list_nearby(st, query) ==
    LET radius_km == IF query.radius_km.ok THEN query.radius_km.v ELSE Num(10)
        precision == IF radius_km.nan THEN 1 ELSE geohash_precision_for_km(radius_km.v * KM)
        geo_hash_prefix == IF query.geo_hash_prefix.ok THEN query.geo_hash_prefix.v
                           ELSE encode_geohash(query.lat.v, query.lon.v, precision)
        geo_hash_key == IF query.geo_hash_key.ok THEN query.geo_hash_key.v
                        ELSE GEO_HASH_KEY_DEFAULT
        excluded_edge_types == parse_csv_set(query.exclude_edge_types)
        start == st.graph[query.start.v]
        excluded_ids ==
            parse_csv_set(query.exclude_ids)
                \cup (IF query.start.ok
                      THEN {edge.to : edge \in {e \in Range(start.neighbors) :
                                                  is_edge_type_excluded(e, excluded_edge_types)}}
                      ELSE {})
        found == list_nodes_by_geo_prefix(st.db, query.type, geo_hash_key, geo_hash_prefix,
                                          db_limit(query.limit, excluded_ids), st.schema,
                                          hydrate_or_default(query.hydrate))
        retained == SelectSeq(found, LAMBDA node : node.id \notin excluded_ids)
    IN IF query.geo_hash_prefix = Some(<<>>) THEN [code |-> "BAD_REQUEST", results |-> <<>>]
       ELSE IF ~query.geo_hash_prefix.ok /\ ~(query.lat.ok /\ query.lon.ok)
       THEN [code |-> "BAD_REQUEST", results |-> <<>>]
       ELSE IF query.start.ok /\ query.start.v \notin DOMAIN st.graph
       THEN [code |-> "NOT_FOUND", results |-> <<>>]
       ELSE [code |-> "OK", results |-> Truncated(retained, query.limit)]

(***************************************************************************)
(* Requests.                                                               *)
(***************************************************************************)
ID_A == <<97>>
\* "a%": '%' in an id of which "a" is a prefix
ID_B == <<97, 37>>
\* "c" followed by the separator byte
ID_C == <<99, 31>>
Ids == {ID_A, ID_B, ID_C}

USER == <<117, 115, 101, 114>>
TEAM == <<116, 101, 97, 109>>
FOLLOW == <<102, 111, 108, 108, 111, 119>>
TWO == <<50>>
OTHER_ENTITY == <<103, 114, 97, 112, 104>>
\* " Edge" and " type ": an entity and a field as a client may spell them
EDGE_SPACED == <<32, 69, 100, 103, 101>>
TYPE_SPACED == <<32>> \o TYPE_KEY \o <<32>>

\* The (from, to) pairs of the edge requests: a-b in one direction, b-c in
\* both, and a self-loop.
EdgePairs == {<<ID_A, ID_B>>, <<ID_B, ID_C>>, <<ID_C, ID_B>>, <<ID_A, ID_A>>}

Map1(k, v) == Put(EmptyMap, k, v)
Map2(k1, v1, k2, v2) == Put(Map1(k1, v1), k2, v2)

NodePayloads == {EmptyMap, Map1(TYPE_KEY, USER), Map1(STATUS_KEY, STATUS_DELETED)}
NodePatches == {Map1(TYPE_KEY, TEAM), Map1(STATUS_KEY, STATUS_DELETED)}
NodeKeyValues == {<<STATUS_KEY, STATUS_DELETED>>, <<STATUS_KEY, STATUS_ACTIVE>>,
                  <<TYPE_KEY, TEAM>>}
EdgePayloads == {EmptyMap, Map1(TYPE_KEY, BLOCK), Map1(WEIGHT_KEY, TWO),
                 Map1(STATUS_KEY, STATUS_DELETED)}
BlockPayloads == {EmptyMap, Map1(WEIGHT_KEY, TWO)}
EdgePatches == {Map1(TYPE_KEY, BLOCK), Map1(STATUS_KEY, STATUS_DELETED),
                Map2(TYPE_KEY, FOLLOW, WEIGHT_KEY, TWO)}
EdgeKeyValues == {<<STATUS_KEY, STATUS_DELETED>>, <<TYPE_KEY, BLOCK>>,
                  <<TYPE_KEY, FOLLOW>>, <<WEIGHT_KEY, TWO>>}
SchemaRequests == {<<ENTITY_NODE, <<TYPE_KEY>> >>,
                   <<ENTITY_EDGE, <<STATUS_KEY, WEIGHT_KEY>> >>,
                   <<EDGE_SPACED, <<TYPE_SPACED, <<>>, TYPE_KEY>> >>,
                   <<ENTITY_EDGE, << <<32>> >> >>,
                   <<OTHER_ENTITY, <<TYPE_KEY>> >>}

\* The longest run of requests explored from an initial state.
MaxOps == 2

(***************************************************************************)
(* State.                                                                  *)
(***************************************************************************)
\* codec is the state of the key-codec harness (CodecSpec); the server runs
\* leave it idle.
VARIABLES db, graph, schema, last, ops, codec, tasks

vars == <<db, graph, schema, last, ops, codec, tasks>>

server_vars == <<db, graph, schema, last, ops, tasks>>

CodecIdle == [step |-> "idle", op |-> "none", comps |-> <<>>, key |-> <<>>, parts |-> None]

\* No handler is between two of its suspension points.
NoTasks ==
    [upsert |-> [pc |-> "idle"], write |-> [pc |-> "idle"], other |-> [pc |-> "idle"],
     writer |-> "none"]

Cur == [db |-> db, graph |-> graph, schema |-> schema]

StateOf(r) == [db |-> r.db, graph |-> r.graph, schema |-> r.schema]

Request(op, from, to, data) == [op |-> op, from |-> from, to |-> to, data |-> data]

NoRequest == [op |-> "none", from |-> <<>>, to |-> <<>>, data |-> EmptyMap, code |-> "none"]

\* The servers the runs start from: a fresh database, and databases that
\* earlier requests have filled.
Fresh == [db |-> EmptyDb, graph |-> NewGraph, schema |-> DefaultSchema]

WithNodes ==
    LET s1 == StateOf(create_node(Fresh, ID_A, Map1(TYPE_KEY, USER)))
        s2 == StateOf(create_node(s1, ID_B, EmptyMap))
    IN StateOf(create_node(s2, ID_C, Map1(TYPE_KEY, TEAM)))

WithEdges ==
    LET s1 == StateOf(create_edge(WithNodes, ID_A, ID_B, Map1(WEIGHT_KEY, TWO)))
    IN StateOf(create_block(s1, ID_B, ID_C, EmptyMap))

Servers == {Fresh, WithEdges}

Init ==
    /\ \E s \in Servers : db = s.db /\ graph = s.graph /\ schema = s.schema
    /\ last = NoRequest
    /\ ops = 0
    /\ codec = CodecIdle
    /\ tasks = NoTasks

\* The handler has returned r to request req.
Handled(req, r) ==
    /\ ops < MaxOps
    /\ db' = r.db
    /\ graph' = r.graph
    /\ schema' = r.schema
    /\ last' = [op |-> req.op, from |-> req.from, to |-> req.to, data |-> req.data,
                code |-> r.code]
    /\ ops' = ops + 1
    /\ UNCHANGED <<codec, tasks>>

CreateNode ==
    \E id \in Ids, data \in NodePayloads :
        Handled(Request("create_node", id, <<>>, data), create_node(Cur, id, data))

CreateEdge ==
    \E e \in EdgePairs, data \in EdgePayloads :
        Handled(Request("create_edge", e[1], e[2], data), create_edge(Cur, e[1], e[2], data))

CreateBlock ==
    \E e \in EdgePairs, data \in BlockPayloads :
        Handled(Request("create_block", e[1], e[2], data), create_block(Cur, e[1], e[2], data))

SetNodeData ==
    \E id \in Ids, kv \in NodeKeyValues :
        Handled(Request("set_node_data", id, <<>>, Map1(kv[1], kv[2])),
                set_node_data(Cur, id, kv[1], kv[2]))

SetEdgeData ==
    \E e \in EdgePairs, kv \in EdgeKeyValues :
        Handled(Request("set_edge_data", e[1], e[2], Map1(kv[1], kv[2])),
                set_edge_data(Cur, e[1], e[2], kv[1], kv[2]))

PatchNode ==
    \E id \in Ids, data \in NodePatches :
        Handled(Request("patch_node", id, <<>>, data), update_node_data(Cur, id, data))

PatchEdge ==
    \E e \in EdgePairs, data \in EdgePatches :
        Handled(Request("patch_edge", e[1], e[2], data), update_edge_data(Cur, e[1], e[2], data))

DeleteNode ==
    \E id \in Ids :
        Handled(Request("delete_node", id, <<>>, EmptyMap), delete_node(Cur, id))

DeleteEdge ==
    \E e \in EdgePairs :
        Handled(Request("delete_edge", e[1], e[2], EmptyMap), delete_edge(Cur, e[1], e[2]))

DeleteBlock ==
    \E e \in EdgePairs :
        Handled(Request("delete_block", e[1], e[2], EmptyMap), delete_block(Cur, e[1], e[2]))

UpsertSchema ==
    \E req \in SchemaRequests :
        Handled(Request("upsert_schema", req[1], <<>>, [f \in Range(req[2]) |-> <<>>]),
                upsert_schema(Cur, req[1], req[2]))

Next ==
    \/ CreateNode
    \/ CreateEdge
    \/ CreateBlock
    \/ SetNodeData
    \/ SetEdgeData
    \/ PatchNode
    \/ PatchEdge
    \/ DeleteNode
    \/ DeleteEdge
    \/ DeleteBlock
    \/ UpsertSchema

Spec == Init /\ [][Next]_vars

(***************************************************************************)
(* The key codec on its own: a run draws the components, builds a key from *)
(* them with one of the key builders, and splits and decodes the key.      *)
(***************************************************************************)
\* The characters of the drawn strings: 'a', the separator, '%', U+00E9 (two
\* bytes), and the hex digits of the separator's escape.
Chars == {<<97>>, <<KEY_SEP>>, <<PERCENT>>, <<195, 169>>, <<49>>, <<70>>}

\* The longest drawn string, in characters.
MaxLen == 3

RECURSIVE Strings(_)
Strings(n) ==
    IF n = 0 THEN {<<>>}
    ELSE LET shorter == Strings(n - 1)
         IN shorter \cup {s \o c : s \in shorter, c \in Chars}

\* The components of the drawn composite keys: "", "a", the separator, "%",
\* and "%1F", the text of the separator's escape.
KeyComponents == {<<>>, <<97>>, <<KEY_SEP>>, <<PERCENT>>, <<PERCENT, 49, 70>>}

Tuples(n) == [1..n -> KeyComponents]

CodecInit ==
    /\ db = EmptyDb
    /\ graph = NewGraph
    /\ schema = DefaultSchema
    /\ last = NoRequest
    /\ ops = 0
    /\ tasks = NoTasks
    /\ \E comps \in {<<s>> : s \in Strings(MaxLen)} \cup Tuples(2) \cup Tuples(3) \cup Tuples(4) :
          codec = [step |-> "input", op |-> "none", comps |-> comps, key |-> <<>>,
                   parts |-> None]

\* The key the builder named op makes of comps.
BuildKey(op, comps) ==
    CASE op = "encode_component" -> encode_component(comps[1])
      [] op = "edge_key" -> edge_key(comps[1], comps[2])
      [] op = "node_data_key" -> node_data_key(comps[1], comps[2])
      [] op = "edge_data_key" -> edge_data_key(comps[1], comps[2], comps[3])
      [] op = "node_index_key" -> node_index_key(comps[1], comps[2], comps[3])
      [] op = "geo_index_key" -> geo_index_key(comps[1], comps[2], comps[3])
      [] op = "edge_index_key" -> edge_index_key(comps[1], comps[2], comps[3], comps[4])

Arity(op) ==
    CASE op = "encode_component" -> 1
      [] op \in {"edge_key", "node_data_key"} -> 2
      [] op \in {"edge_data_key", "node_index_key", "geo_index_key"} -> 3
      [] op = "edge_index_key" -> 4

Build(op) ==
    /\ codec.step = "input"
    /\ Len(codec.comps) = Arity(op)
    /\ codec' = [codec EXCEPT !.step = "built", !.op = op, !.key = BuildKey(op, codec.comps)]
    /\ UNCHANGED server_vars

Split(n, result) ==
    /\ codec.step = "built"
    /\ Arity(codec.op) = n
    /\ codec' = [codec EXCEPT !.step = "split", !.parts = result]
    /\ UNCHANGED server_vars

EncodeComponent == Build("encode_component")
BuildEdgeKey == Build("edge_key")
BuildNodeDataKey == Build("node_data_key")
BuildEdgeDataKey == Build("edge_data_key")
BuildNodeIndexKey == Build("node_index_key")
BuildGeoIndexKey == Build("geo_index_key")
BuildEdgeIndexKey == Build("edge_index_key")
DecodeComponent == Split(1, decode_component(codec.key))
SplitTwoDecoded == Split(2, split_two_decoded(codec.key))
SplitThreeDecoded == Split(3, split_three_decoded(codec.key))
SplitFourDecoded == Split(4, split_four_decoded(codec.key))

CodecNext ==
    \/ EncodeComponent
    \/ DecodeComponent
    \/ BuildEdgeKey
    \/ BuildNodeDataKey
    \/ BuildEdgeDataKey
    \/ BuildNodeIndexKey
    \/ BuildGeoIndexKey
    \/ BuildEdgeIndexKey
    \/ SplitTwoDecoded
    \/ SplitThreeDecoded
    \/ SplitFourDecoded

CodecSpec == CodecInit /\ [][CodecNext]_vars

(***************************************************************************)
(* Handlers that overlap.  upsert_schema runs beside one set_node_data or  *)
(* set_edge_data; a step is what a handler does between two of its         *)
(* .await points.  tasks.upsert and tasks.write hold each handler's        *)
(* position and locals, tasks.writer the holder of the cache's write lock. *)
(***************************************************************************)
RaceSchemaRequests == SchemaRequests

RaceWrites ==
    {Request("set_node_data", id, <<>>, Map1(kv[1], kv[2])) :
        id \in {ID_A, ID_C}, kv \in NodeKeyValues}
    \cup {Request("set_edge_data", e[1], e[2], Map1(kv[1], kv[2])) :
        e \in {<<ID_A, ID_B>>, <<ID_B, ID_C>>}, kv \in EdgeKeyValues}

RaceInit ==
    /\ \E s \in Servers : db = s.db /\ graph = s.graph /\ schema = s.schema
    /\ last = NoRequest
    /\ ops = 0
    /\ codec = CodecIdle
    /\ \E u \in RaceSchemaRequests, w \in RaceWrites :
          tasks = [upsert |-> [pc |-> "start", entity |-> u[1], raw_fields |-> u[2],
                               schema_snapshot |-> DefaultSchema, graph |-> NewGraph],
                   write |-> [pc |-> "start", req |-> w, schema |-> DefaultSchema,
                              present |-> FALSE, commits |-> 0, cached |-> FALSE,
                              committed_at |-> "none", done_at |-> "none"],
                   other |-> [pc |-> "idle"],
                   writer |-> "none"]

\* The one (key, value) of a set_node_data or set_edge_data request.
KeyOf(req) == CHOOSE k \in DOMAIN req.data : TRUE

ValueOf(req) == req.data[KeyOf(req)]

\* The handler of req returns code.
Returned(req, code) ==
    /\ last' = [op |-> req.op, from |-> req.from, to |-> req.to, data |-> req.data,
                code |-> code]
    /\ ops' = ops + 1

UpsertRequest ==
    Request("upsert_schema", tasks.upsert.entity, <<>>,
            [f \in Range(tasks.upsert.raw_fields) |-> <<>>])

\* upsert_schema up to the end of run_db(save_schema): the two checks, then
\* the write of the whitelist row.
UpsertSaveSchema ==
    LET entity == to_lowercase(trim(tasks.upsert.entity))
        fields == TrimmedFields(tasks.upsert.raw_fields)
    IN /\ tasks.upsert.pc = "start"
       /\ IF (entity # ENTITY_NODE /\ entity # ENTITY_EDGE) \/ fields = {}
          THEN /\ tasks' = [tasks EXCEPT !.upsert.pc = "done"]
               /\ Returned(UpsertRequest, "BAD_REQUEST")
               /\ UNCHANGED db
          ELSE /\ tasks' = [tasks EXCEPT !.upsert.pc = "saved"]
               /\ db' = save_schema(db, entity, fields)
               /\ UNCHANGED <<last, ops>>
       /\ UNCHANGED <<graph, schema, codec>>

\* state.schema.write(): the in-memory whitelist takes the new fields.
UpsertWriteSchema ==
    LET fields == TrimmedFields(tasks.upsert.raw_fields)
    IN /\ tasks.upsert.pc = "saved"
       /\ schema' = IF to_lowercase(trim(tasks.upsert.entity)) = ENTITY_NODE
                    THEN [schema EXCEPT !.node_fields = fields, !.node_defined = TRUE]
                    ELSE [schema EXCEPT !.edge_fields = fields, !.edge_defined = TRUE]
       /\ tasks' = [tasks EXCEPT !.upsert.pc = "written"]
       /\ UNCHANGED <<db, graph, last, ops, codec>>

\* let schema_snapshot = state.schema.read().await.clone()
UpsertSnapshot ==
    /\ tasks.upsert.pc = "written"
    /\ tasks' = [tasks EXCEPT !.upsert.pc = "snapshot", !.upsert.schema_snapshot = schema]
    /\ UNCHANGED <<db, graph, schema, last, ops, codec>>

\* run_db(load_graph(db, &schema_snapshot))
UpsertLoadGraph ==
    /\ tasks.upsert.pc = "snapshot"
    /\ tasks' = [tasks EXCEPT !.upsert.pc = "loaded",
                              !.upsert.graph = load_graph(db, tasks.upsert.schema_snapshot)]
    /\ UNCHANGED <<db, graph, schema, last, ops, codec>>

\* *state.graph.write().await = graph
UpsertReplaceGraph ==
    /\ tasks.upsert.pc = "loaded"
    /\ tasks.writer = "none"
    /\ graph' = tasks.upsert.graph
    /\ tasks' = [tasks EXCEPT !.upsert.pc = "done"]
    /\ Returned(UpsertRequest, "NO_CONTENT")
    /\ UNCHANGED <<db, schema, codec>>

\* The write handler named op is at position pc.
WriteAt(op, pc) == tasks.write.pc = pc /\ tasks.write.req.op = op

\* The has_node / has_edge check under the read lock.
WriteCheck(op, found) ==
    /\ WriteAt(op, "start")
    /\ tasks.writer = "none"
    /\ IF found
       THEN /\ tasks' = [tasks EXCEPT !.write.pc = "checked"]
            /\ UNCHANGED <<last, ops>>
       ELSE /\ tasks' = [tasks EXCEPT !.write.pc = "done", !.write.done_at = tasks.upsert.pc]
            /\ Returned(tasks.write.req, "NOT_FOUND")
    /\ UNCHANGED <<db, graph, schema, codec>>

\* The run_db of the property row.  commits counts the transactions the
\* handler has committed, and cached tells whether it has changed the cache;
\* committed_at and done_at keep where upsert_schema was when the handler
\* committed this row and when it returned.
WriteInsert(op, db1) ==
    /\ WriteAt(op, "checked")
    /\ db' = db1
    /\ tasks' = [tasks EXCEPT !.write.pc = "inserted", !.write.commits = @ + 1,
                              !.write.committed_at = tasks.upsert.pc]
    /\ UNCHANGED <<graph, schema, last, ops, codec>>

\* let schema = state.schema.read().await.clone()
WriteSnapshot(op) ==
    /\ WriteAt(op, "inserted")
    /\ tasks' = [tasks EXCEPT !.write.pc = "snapshot", !.write.schema = schema]
    /\ UNCHANGED <<db, graph, schema, last, ops, codec>>

SetNodeDataCheck ==
    WriteCheck("set_node_data", has_node(graph, tasks.write.req.from))

SetNodeDataInsert ==
    LET req == tasks.write.req
    IN WriteInsert("set_node_data", insert_node_data(db, req.from, KeyOf(req), ValueOf(req)))

SetNodeDataSnapshot == WriteSnapshot("set_node_data")

\* set_node_data from state.graph.write() to its return.
SetNodeDataCache ==
    LET req == tasks.write.req
        key == KeyOf(req)
        value == ValueOf(req)
        graph1 == IF node_in_memory(tasks.write.schema, key)
                  THEN graph_set_node_data(graph, req.from, key, value)
                  ELSE graph
    IN /\ WriteAt("set_node_data", "snapshot")
       /\ tasks.writer = "none"
       /\ graph' = IF key = STATUS_KEY /\ value = STATUS_DELETED
                   THEN remove_node(graph1, req.from)
                   ELSE graph1
       /\ tasks' = [tasks EXCEPT !.write.pc = "done", !.write.done_at = tasks.upsert.pc,
                                 !.write.cached = \/ node_in_memory(tasks.write.schema, key)
                                                  \/ key = STATUS_KEY /\ value = STATUS_DELETED]
       /\ Returned(req, "NO_CONTENT")
       /\ UNCHANGED <<db, schema, codec>>

SetEdgeDataCheck ==
    WriteCheck("set_edge_data", has_edge(graph, tasks.write.req.from, tasks.write.req.to))

SetEdgeDataInsert ==
    LET req == tasks.write.req
    IN WriteInsert("set_edge_data",
                   insert_edge_data(db, req.from, req.to, KeyOf(req), ValueOf(req)))

SetEdgeDataSnapshot == WriteSnapshot("set_edge_data")

\* set_edge_data from state.graph.write() to its return, or to the run_db of
\* the mirror's insert_edge or insert_edge_data_bulk, which it awaits with
\* the write lock held.
SetEdgeDataCache ==
    LET req == tasks.write.req
        key == KeyOf(req)
        value == ValueOf(req)
        graph1 == IF edge_in_memory(tasks.write.schema, key)
                  THEN graph_set_edge_data(graph, req.from, req.to, key, value)
                  ELSE graph
        graph2 == IF key = STATUS_KEY /\ value = STATUS_DELETED
                  THEN remove_edge(graph1, req.from, req.to)
                  ELSE graph1
        touched == \/ edge_in_memory(tasks.write.schema, key)
                   \/ key = STATUS_KEY /\ value = STATUS_DELETED
    IN /\ WriteAt("set_edge_data", "snapshot")
       /\ tasks.writer = "none"
       /\ graph' = graph2
       /\ IF key = TYPE_KEY /\ value = BLOCK /\ req.from # req.to
          THEN /\ tasks' = [tasks EXCEPT !.write.pc = "mirror", !.writer = "write",
                                         !.write.present = has_edge(graph2, req.to, req.from),
                                         !.write.cached = touched]
               /\ UNCHANGED <<last, ops>>
          ELSE /\ tasks' = [tasks EXCEPT !.write.pc = "done", !.write.cached = touched,
                                         !.write.done_at = tasks.upsert.pc]
               /\ Returned(req, "NO_CONTENT")
       /\ UNCHANGED <<db, schema, codec>>

\* run_db(insert_edge(reverse)) and graph.add_edge, when the cache had no
\* reverse edge.
SetEdgeDataMirrorEdge ==
    LET req == tasks.write.req
    IN /\ WriteAt("set_edge_data", "mirror")
       /\ IF tasks.write.present
          THEN /\ tasks' = [tasks EXCEPT !.write.pc = "mirrored"]
               /\ UNCHANGED <<db, graph>>
          ELSE /\ db' = insert_edge(db, req.to, req.from)
               /\ graph' = add_edge(graph, req.to, req.from)
               /\ tasks' = [tasks EXCEPT !.write.pc = "mirrored", !.write.commits = @ + 1,
                                         !.write.cached = TRUE]
       /\ UNCHANGED <<schema, last, ops, codec>>

\* run_db(insert_edge_data_bulk(reverse)), the two cache writes, the return.
SetEdgeDataMirrorData ==
    LET req == tasks.write.req
        reverse_data == Put(Put(EmptyMap, TYPE_KEY, BLOCK), STATUS_KEY, STATUS_ACTIVE)
    IN /\ WriteAt("set_edge_data", "mirrored")
       /\ db' = insert_edge_data_bulk(db, req.to, req.from, reverse_data)
       /\ graph' = SetEdgeDataAll(graph, tasks.write.schema, req.to, req.from, reverse_data)
       /\ tasks' = [tasks EXCEPT !.write.pc = "done", !.writer = "none",
                                 !.write.done_at = tasks.upsert.pc,
                                 !.write.commits = @ + 1, !.write.cached = TRUE]
       /\ Returned(req, "NO_CONTENT")
       /\ UNCHANGED <<schema, codec>>

RaceNext ==
    \/ UpsertSaveSchema
    \/ UpsertWriteSchema
    \/ UpsertSnapshot
    \/ UpsertLoadGraph
    \/ UpsertReplaceGraph
    \/ SetNodeDataCheck
    \/ SetNodeDataInsert
    \/ SetNodeDataSnapshot
    \/ SetNodeDataCache
    \/ SetEdgeDataCheck
    \/ SetEdgeDataInsert
    \/ SetEdgeDataSnapshot
    \/ SetEdgeDataCache
    \/ SetEdgeDataMirrorEdge
    \/ SetEdgeDataMirrorData

RaceSpec == RaceInit /\ [][RaceNext]_vars

(***************************************************************************)
(* Two writers.  One handler, set_node_data or create_node, runs step by   *)
(* step between its suspension points; a set_node_data of another client   *)
(* on node a runs in one piece at any of these points; the first handler   *)
(* may be dropped after its commit and before its cache update; and the    *)
(* process may restart when no handler is running.                         *)
(***************************************************************************)
WriterRequests ==
    {Request("set_node_data", ID_A, <<>>, Map1(TYPE_KEY, TEAM)),
     Request("set_node_data", ID_C, <<>>, Map1(WEIGHT_KEY, TWO)),
     Request("create_node", ID_A, <<>>, Map1(TYPE_KEY, TEAM)),
     Request("create_node", ID_B, <<>>, EmptyMap)}

OtherRequests ==
    {Request("set_node_data", ID_A, <<>>, Map1(TYPE_KEY, USER)),
     Request("set_node_data", ID_A, <<>>, Map1(TYPE_KEY, FOLLOW)),
     Request("set_node_data", ID_A, <<>>, Map1(WEIGHT_KEY, TWO))}

WriterInit ==
    /\ \E s \in Servers : db = s.db /\ graph = s.graph /\ schema = s.schema
    /\ last = NoRequest
    /\ ops = 0
    /\ codec = CodecIdle
    /\ \E w \in WriterRequests, o \in OtherRequests :
          tasks = [upsert |-> [pc |-> "idle"],
                   write |-> [pc |-> "start", req |-> w, schema |-> DefaultSchema,
                              present |-> FALSE, commits |-> 0, cached |-> FALSE],
                   other |-> [pc |-> "start", req |-> o, code |-> "none"],
                   writer |-> "none"]

\* create_node up to the end of run_db(insert_node).
CreateNodeInsert ==
    /\ WriteAt("create_node", "start")
    /\ db' = insert_node(db, tasks.write.req.from)
    /\ tasks' = [tasks EXCEPT !.write.pc = "inserted", !.write.commits = @ + 1]
    /\ UNCHANGED <<graph, schema, last, ops, codec>>

CreateNodeSnapshot == WriteSnapshot("create_node")

\* state.graph.write() and graph.add_node, up to the run_db that the handler
\* awaits with the write lock held.
CreateNodeAdd ==
    /\ WriteAt("create_node", "snapshot")
    /\ tasks.writer = "none"
    /\ graph' = add_node(graph, tasks.write.req.from)
    /\ tasks' = [tasks EXCEPT !.write.pc = "added", !.writer = "write",
                              !.write.cached = TRUE]
    /\ UNCHANGED <<db, schema, last, ops, codec>>

\* run_db(insert_node_data_bulk), the cache writes, the return.
CreateNodeData ==
    LET req == tasks.write.req
        data == WithDefaultStatus(req.data)
    IN /\ WriteAt("create_node", "added")
       /\ db' = insert_node_data_bulk(db, req.from, data)
       /\ graph' = SetNodeDataAll(graph, tasks.write.schema, req.from, data)
       /\ tasks' = [tasks EXCEPT !.write.pc = "done", !.writer = "none",
                                 !.write.commits = @ + 1]
       /\ Returned(req, "CREATED")
       /\ UNCHANGED <<schema, codec>>

\* The whole set_node_data of the other client, the write lock being free.
OtherSetNodeData ==
    LET req == tasks.other.req
        r == set_node_data(Cur, req.from, KeyOf(req), ValueOf(req))
    IN /\ tasks.other.pc = "start"
       /\ tasks.writer = "none"
       /\ db' = r.db
       /\ graph' = r.graph
       /\ tasks' = [tasks EXCEPT !.other.pc = "done", !.other.code = r.code]
       /\ Returned(req, r.code)
       /\ UNCHANGED <<schema, codec>>

\* The future of the handler is dropped, the client being gone, after the
\* handler's commit and before it takes the write lock.
Cancel ==
    /\ tasks.write.pc \in {"inserted", "snapshot"}
    /\ tasks' = [tasks EXCEPT !.write.pc = "cancelled"]
    /\ last' = [NoRequest EXCEPT !.op = "cancel"]
    /\ UNCHANGED <<db, graph, schema, ops, codec>>

\* The process starts again on the database: main from init_db to the
\* construction of the state.
Restart ==
    /\ tasks.write.pc \in {"done", "cancelled"}
    /\ last.op # "restart"
    /\ \E rebuilt \in {rebuild_indexes_if_empty(db)} :
          \E db1 \in {ensure_status_defaults(rebuilt)} :
           \E schema1 \in {load_schema(db1)} :
             /\ db' = db1
             /\ schema' = schema1
             /\ graph' = load_graph(db1, schema1)
    /\ last' = [NoRequest EXCEPT !.op = "restart"]
    /\ UNCHANGED <<ops, codec, tasks>>

WriterNext ==
    \/ SetNodeDataCheck
    \/ SetNodeDataInsert
    \/ SetNodeDataSnapshot
    \/ SetNodeDataCache
    \/ CreateNodeInsert
    \/ CreateNodeSnapshot
    \/ CreateNodeAdd
    \/ CreateNodeData
    \/ OtherSetNodeData
    \/ Cancel
    \/ Restart

WriterSpec == WriterInit /\ [][WriterNext]_vars

(***************************************************************************)
(* Recommendation queries.  The servers are what create_node and           *)
(* create_edge leave of a start node s, two nodes m and n next to it, and  *)
(* the teams t and u behind them; each edge is absent or carries one of a  *)
(* few payloads.                                                           *)
(***************************************************************************)
REC_START == <<115>>
REC_MID1 == <<109>>
REC_MID2 == <<110>>
REC_TEAM == <<116>>
REC_OTHER == <<117>>
REC_MISSING == <<122>>
RecIds == {REC_START, REC_MID1, REC_MID2, REC_TEAM, REC_OTHER}
THREE == <<51>>
NOT_A_NUMBER == <<120>>
\* "NaN", which str::parse::<f64> takes
NAN_WEIGHT == <<78, 97, 78>>

Heavy == Map1(WEIGHT_KEY, TWO)
Unweighable == Map1(WEIGHT_KEY, NOT_A_NUMBER)
Blocking == Map2(TYPE_KEY, BLOCK, WEIGHT_KEY, THREE)
Undefined == Map1(WEIGHT_KEY, NAN_WEIGHT)

\* The edges of a server, each with the payloads it may have been created
\* with (None: not created).
RecEdgeChoices ==
    << <<REC_START, REC_MID1, {Some(Heavy), Some(Unweighable), Some(Blocking)}>>,
       <<REC_START, REC_MID2, {None, Some(EmptyMap), Some(Map1(WEIGHT_KEY, THREE))}>>,
       <<REC_MID1, REC_TEAM, {None, Some(Heavy), Some(Blocking)}>>,
       <<REC_MID2, REC_TEAM, {None, Some(Map1(WEIGHT_KEY, THREE))}>>,
       <<REC_START, REC_TEAM, {None, Some(EmptyMap), Some(Blocking), Some(Undefined)}>>,
       <<REC_MID1, REC_START, {None, Some(EmptyMap)}>>,
       <<REC_START, REC_OTHER, {None, Some(Map1(WEIGHT_KEY, THREE))}>> >>

RecNodes ==
    LET s1 == StateOf(create_node(Fresh, REC_START, Map1(TYPE_KEY, USER)))
        s2 == StateOf(create_node(s1, REC_MID1, Map1(TYPE_KEY, USER)))
        s3 == StateOf(create_node(s2, REC_MID2, Map1(TYPE_KEY, TEAM)))
        s4 == StateOf(create_node(s3, REC_TEAM, Map1(TYPE_KEY, TEAM)))
    IN StateOf(create_node(s4, REC_OTHER, Map1(TYPE_KEY, TEAM)))

\* The server after create_edge for the edges i.. of RecEdgeChoices with the
\* payloads chosen.
RECURSIVE RecServer(_, _, _)
RecServer(st, chosen, i) ==
    IF i > Len(chosen) THEN st
    ELSE LET e == RecEdgeChoices[i]
             next == IF chosen[i].ok THEN StateOf(create_edge(st, e[1], e[2], chosen[i].v))
                     ELSE st
         IN RecServer(next, chosen, i + 1)

\* The queries: every combination of start, type, hydrate and the two
\* exclusion lists without a limit, the plain queries with limit 1, and one
\* query from a node that does not exist.
RecQueries ==
    LET Plain == [num_key |-> None, min |-> None, max |-> None, limit |-> None,
                  hydrate |-> None, exclude_edge_types |-> None, exclude_ids |-> None,
                  geo_key |-> None, lat |-> None, lon |-> None, radius_km |-> None]
    IN [start : {REC_START, REC_MID1},
        type : {TEAM, USER},
        num_key : {None},
        min : {None},
        max : {None},
        limit : {None},
        hydrate : {None, Some(FALSE)},
        exclude_edge_types : {None, Some(<<32>> \o BLOCK \o <<COMMA>>)},
        exclude_ids : {None, Some(<<32>> \o REC_TEAM \o <<COMMA>> \o REC_MISSING)},
        geo_key : {None},
        lat : {None},
        lon : {None},
        radius_km : {None}]
       \cup {[Plain EXCEPT !.limit = Some(1)] @@ [start |-> st, type |-> T] :
                st \in {REC_START, REC_MID1}, T \in {TEAM, USER}}
       \cup {Plain @@ [start |-> REC_MISSING, type |-> TEAM]}

\* The most queries of a run.
MaxQueries == 1

RecommendInit ==
    /\ \E chosen \in [DOMAIN RecEdgeChoices -> {None} \cup {Some(d) : d \in
                          {EmptyMap, Heavy, Unweighable, Blocking, Undefined,
                           Map1(WEIGHT_KEY, THREE)}}] :
          /\ \A i \in DOMAIN chosen : chosen[i] \in RecEdgeChoices[i][3]
          /\ LET s == RecServer(RecNodes, chosen, 1)
             IN db = s.db /\ graph = s.graph /\ schema = s.schema
    /\ last = NoRequest
    /\ ops = 0
    /\ codec = CodecIdle
    /\ tasks = NoTasks

\* GET /recommendations, the scores map handing out its entries in any
\* order: last keeps the query and the results with the reply.
RecommendFrom(queries) ==
    \E query \in queries :
      \E order \in IterationOrders(DOMAIN RecommendationScoresOf(Cur, query)) :
        LET r == recommend_nodes(Cur, query, order)
        IN /\ ops < MaxQueries
           /\ ops' = ops + 1
           /\ last' = [op |-> "recommend_nodes", from |-> query.start, to |-> <<>>,
                       data |-> EmptyMap, code |-> r.code, query |-> query,
                       results |-> r.results]
           /\ UNCHANGED <<db, graph, schema, codec, tasks>>

Recommend == RecommendFrom(RecQueries)

RecommendNext == Recommend

RecommendSpec == RecommendInit /\ [][RecommendNext]_vars

(***************************************************************************)
(* Recommendation within a radius.  The server holds s -> m -> t and       *)
(* s -> m -> u; s, t and u have no location or one of a few texts, all of  *)
(* longitude 0, and the origins of the queries are of longitude 0 too.     *)
(***************************************************************************)
\* "0,0"
AT_ORIGIN == <<48, 44, 48>>
\* " 1 , 0": one degree north, about 111 km from the origin
ONE_DEGREE == <<32, 49, 32, 44, 32, 48>>
\* "NaN,0"
NAN_LATITUDE == <<78, 97, 78, 44, 48>>
\* "91,0"
BEYOND_POLE == <<57, 49, 44, 48>>
\* "1"
NO_LONGITUDE == <<49>>

GeoServer(at_s, at_t, at_u) ==
    LET Located(type, at) == IF at.ok THEN Map2(TYPE_KEY, type, GEO_KEY_DEFAULT, at.v)
                             ELSE Map1(TYPE_KEY, type)
        s1 == StateOf(create_node(Fresh, REC_START, Located(USER, at_s)))
        s2 == StateOf(create_node(s1, REC_MID1, Map1(TYPE_KEY, USER)))
        s3 == StateOf(create_node(s2, REC_TEAM, Located(TEAM, at_t)))
        s4 == StateOf(create_node(s3, REC_OTHER, Located(TEAM, at_u)))
        s5 == StateOf(create_edge(s4, REC_START, REC_MID1, EmptyMap))
        s6 == StateOf(create_edge(s5, REC_MID1, REC_TEAM, EmptyMap))
    IN StateOf(create_edge(s6, REC_MID1, REC_OTHER, EmptyMap))

GeoInit ==
    /\ \E at_s \in {None, Some(AT_ORIGIN), Some(NAN_LATITUDE), Some(NO_LONGITUDE)} :
       \E at_t, at_u \in {None, Some(AT_ORIGIN), Some(ONE_DEGREE), Some(NAN_LATITUDE),
                          Some(BEYOND_POLE)} :
          LET s == GeoServer(at_s, at_t, at_u)
          IN db = s.db /\ graph = s.graph /\ schema = s.schema
    /\ last = NoRequest
    /\ ops = 0
    /\ codec = CodecIdle
    /\ tasks = NoTasks

\* The queries for teams from s: no origin, the origin 0,0 or a latitude
\* alone; no radius, 10 km, 200 km or a radius that is not a number.
GeoQueries ==
    [start : {REC_START},
     type : {TEAM},
     num_key : {None},
     min : {None},
     max : {None},
     limit : {None},
     hydrate : {None},
     exclude_edge_types : {None},
     exclude_ids : {None},
     geo_key : {None},
     lat : {None, Some(Num(0))},
     lon : {None, Some(Num(0))},
     radius_km : {None, Some(Num(10)), Some(Num(200)), Some(NaN)}]

RecommendNear == RecommendFrom(GeoQueries)

GeoNext == RecommendNear

GeoSpec == GeoInit /\ [][GeoNext]_vars

(***************************************************************************)
(* The precision of a radius.  A run draws two radii from the sizes of the *)
(* table, their neighbours, no radius, a negative one, 10 km and one       *)
(* beyond the table, and computes the precision of each.                   *)
(***************************************************************************)
Radii ==
    {0 - 1, 0, 1, 10 * KM}
        \cup UNION {{GeohashSizes[i][2] - 1, GeohashSizes[i][2], GeohashSizes[i][2] + 1} :
                       i \in DOMAIN GeohashSizes}

PrecisionInit ==
    /\ db = EmptyDb
    /\ graph = NewGraph
    /\ schema = DefaultSchema
    /\ last = NoRequest
    /\ ops = 0
    /\ tasks = NoTasks
    /\ \E r1, r2 \in Radii :
          codec = [step |-> "input", op |-> "none", comps |-> <<r1, r2>>, key |-> <<>>,
                   parts |-> None]

GeohashPrecision ==
    /\ codec.step = "input"
    /\ codec' = [codec EXCEPT !.step = "output", !.op = "geohash_precision_for_km",
                              !.key = <<geohash_precision_for_km(codec.comps[1]),
                                        geohash_precision_for_km(codec.comps[2])>>]
    /\ UNCHANGED server_vars

PrecisionNext == GeohashPrecision

PrecisionSpec == PrecisionInit /\ [][PrecisionNext]_vars

(***************************************************************************)
(* Nearby queries.  The servers are what the handlers leave of up to three *)
(* nodes with or without a geohash, an edge from the first to the last, a  *)
(* delete of the last and a new geohash for the second.                    *)
(***************************************************************************)
\* "6gy", "6gx", "6g", "6%", "dr", "7k"
CELL == <<54, 103, 121>>
CELL_NEXT == <<54, 103, 120>>
CELL_PARENT == <<54, 103>>
CELL_ODD == <<54, 37>>
CELL_FAR == <<100, 114>>
CELL_MOVED == <<55, 107>>

NearbyInit ==
    /\ \E data_a \in {None, Some(Map2(TYPE_KEY, TEAM, GEO_HASH_KEY_DEFAULT, CELL)),
                        Some(Map2(TYPE_KEY, TEAM, GEO_HASH_KEY_DEFAULT, CELL_PARENT))} :
       \E data_b \in {Map2(TYPE_KEY, TEAM, GEO_HASH_KEY_DEFAULT, CELL),
                      Map2(TYPE_KEY, USER, GEO_HASH_KEY_DEFAULT, CELL),
                      Map2(TYPE_KEY, TEAM, GEO_HASH_KEY_DEFAULT, CELL_FAR),
                      Map1(TYPE_KEY, TEAM)} :
       \E data_c \in {Map2(TYPE_KEY, TEAM, GEO_HASH_KEY_DEFAULT, CELL_NEXT),
                      Map2(TYPE_KEY, TEAM, GEO_HASH_KEY_DEFAULT, CELL_ODD)} :
       \E edge \in {None, Some(Map1(TYPE_KEY, BLOCK)), Some(Map1(TYPE_KEY, FOLLOW))} :
       \E deleted, moved \in BOOLEAN :
       \E s1 \in {IF data_a.ok THEN StateOf(create_node(Fresh, ID_A, data_a.v)) ELSE Fresh} :
       \E s2 \in {StateOf(create_node(s1, ID_B, data_b))} :
       \E s3 \in {StateOf(create_node(s2, ID_C, data_c))} :
       \E s4 \in {IF edge.ok THEN StateOf(create_edge(s3, ID_A, ID_C, edge.v)) ELSE s3} :
       \E s5 \in {IF deleted THEN StateOf(delete_node(s4, ID_C)) ELSE s4} :
       \E s \in {IF moved
                  THEN StateOf(set_node_data(s5, ID_B, GEO_HASH_KEY_DEFAULT, CELL_MOVED))
                  ELSE s5} :
          db = s.db /\ graph = s.graph /\ schema = s.schema
    /\ last = NoRequest
    /\ ops = 0
    /\ codec = CodecIdle
    /\ tasks = NoTasks

\* The queries for teams: by the prefix "6", "6g" or "", with and without
\* a limit of 1, a list of excluded ids and a start node with an excluded
\* edge type; by a latitude and a longitude, or a latitude alone; and from a
\* start node that does not exist.
NearbyQueries ==
    LET ByPrefix == [start : {None}, type : {TEAM},
                     geo_hash_prefix : {Some(<<54>>), Some(CELL_PARENT), Some(<<>>)},
                     geo_hash_key : {None}, lat : {None}, lon : {None}, radius_km : {None},
                     limit : {None, Some(1)}, hydrate : {None},
                     exclude_edge_types : {None},
                     exclude_ids : {None, Some(<<32>> \o ID_A \o <<COMMA>>)}]
        Plain == CHOOSE q \in ByPrefix :
                     q.geo_hash_prefix = Some(<<54>>) /\ ~q.limit.ok /\ ~q.exclude_ids.ok
    IN ByPrefix
         \cup {[q EXCEPT !.start = Some(ID_A), !.exclude_edge_types = Some(BLOCK)] :
                  q \in ByPrefix}
         \cup {[Plain EXCEPT !.start = Some(REC_MISSING)],
               [Plain EXCEPT !.geo_hash_prefix = None, !.lat = Some(Num(0 - 23)),
                             !.lon = Some(Num(0 - 46))],
               [Plain EXCEPT !.geo_hash_prefix = None, !.lat = Some(Num(0 - 23))]}

\* GET /nearby: last keeps the query and the results with the reply.
ListNearby ==
    \E query \in NearbyQueries :
        \E r \in {list_nearby(Cur, query)} :
           /\ ops < MaxQueries
           /\ ops' = ops + 1
           /\ last' = [op |-> "list_nearby", from |-> <<>>, to |-> <<>>, data |-> EmptyMap,
                       code |-> r.code, query |-> query, results |-> r.results]
           /\ UNCHANGED <<db, graph, schema, codec, tasks>>

NearbyNext == ListNearby

NearbySpec == NearbyInit /\ [][NearbyNext]_vars

(***************************************************************************)
(* Locks.  upsert_schema, create_edge, list_nearby and delete_node run     *)
(* side by side, one step per suspension point: the wait for a lock and    *)
(* the wait for a run_db are steps of their own.  tasks.schema_lock and    *)
(* tasks.graph_lock are the two RwLocks of the state, tasks.kv the holder  *)
(* of the store's write transaction.                                       *)
(***************************************************************************)
Handlers == {"upsert", "edge", "nearby", "delete"}

Unlocked == [writer |-> "none", readers |-> {}]

\* RwLock::read and RwLock::write return when the lock admits the guard.
CanRead(lock) == lock.writer = "none"
CanWrite(lock) == lock.writer = "none" /\ lock.readers = {}
ReadLocked(lock, h) == [lock EXCEPT !.readers = @ \cup {h}]
WriteLocked(lock, h) == [lock EXCEPT !.writer = h]

\* A faulty variant in which a dropped guard keeps its lock.
KeptLocked(lock, h) == lock

\* The guard of h goes out of scope: at the end of the statement for the
\* temporary of `state.schema.read().await.clone()`, at the end of the block
\* or of the handler for a named guard.
Released(lock, h) ==
    [writer |-> IF lock.writer = h THEN "none" ELSE lock.writer,
     readers |-> lock.readers \ {h}]

HoldsLock(lock, h) == lock.writer = h \/ h \in lock.readers

LockSchemaRequests == {<<ENTITY_NODE, <<TYPE_KEY>> >>, <<OTHER_ENTITY, <<TYPE_KEY>> >>}

LockEdgeRequests ==
    {Request("create_edge", ID_A, ID_C, EmptyMap),
     Request("create_edge", ID_A, ID_C, Map1(TYPE_KEY, BLOCK))}

LockNearbyQueries ==
    {q \in NearbyQueries :
        /\ q.geo_hash_prefix \in {Some(<<54>>), Some(<<>>)}
        /\ ~q.limit.ok /\ ~q.exclude_ids.ok
        /\ q.start \in {None, Some(ID_A)}}

\* The server the handlers start on: what create_node leaves of a and of c,
\* a team in the cell "6gy".
LockServer ==
    StateOf(create_node(StateOf(create_node(Fresh, ID_A, EmptyMap)), ID_C,
                        Map2(TYPE_KEY, TEAM, GEO_HASH_KEY_DEFAULT, CELL)))

LockInit ==
    /\ db = LockServer.db /\ graph = LockServer.graph /\ schema = LockServer.schema
    /\ last = NoRequest
    /\ ops = 0
    /\ codec = CodecIdle
    /\ \E u \in LockSchemaRequests, e \in LockEdgeRequests,
          q \in LockNearbyQueries :
          tasks = [upsert |-> [pc |-> "start", entity |-> u[1], raw_fields |-> u[2],
                               schema_snapshot |-> DefaultSchema, graph |-> NewGraph],
                   edge |-> [pc |-> "start", req |-> e, schema |-> DefaultSchema,
                             present |-> FALSE],
                   nearby |-> [pc |-> "start", query |-> q, graph |-> NewGraph,
                               schema |-> DefaultSchema, code |-> "none", results |-> <<>>],
                   delete |-> [pc |-> "start", req |-> Request("delete_node", ID_C, <<>>, EmptyMap),
                               deleted |-> FALSE],
                   schema_lock |-> Unlocked,
                   graph_lock |-> Unlocked,
                   kv |-> "none"]

At(h, pc) == tasks[h].pc = pc

\* What each handler waits for at the positions where it waits: a guard of
\* one of the locks, or the store's write transaction for the closure of a
\* run_db.
WaitsFor ==
    [upsert |-> [save |-> "kv", saved |-> "schema_write", written |-> "schema_read",
                 loaded |-> "graph_write"],
     edge |-> [start |-> "graph_read", checked |-> "kv", inserted |-> "schema_read",
               snapshot |-> "graph_write", added |-> "kv", mirror |-> "kv",
               mirrored |-> "kv"],
     nearby |-> [graph |-> "graph_read", schema |-> "schema_read"],
     delete |-> [start |-> "kv", deleted |-> "graph_write"]]

Awaits(h) ==
    IF tasks[h].pc \in DOMAIN WaitsFor[h] THEN WaitsFor[h][tasks[h].pc] ELSE "nothing"

Available(resource) ==
    CASE resource = "kv" -> tasks.kv = "none"
      [] resource = "schema_read" -> CanRead(tasks.schema_lock)
      [] resource = "schema_write" -> CanWrite(tasks.schema_lock)
      [] resource = "graph_read" -> CanRead(tasks.graph_lock)
      [] resource = "graph_write" -> CanWrite(tasks.graph_lock)
      [] resource = "nothing" -> TRUE

Granted(h, resource) ==
    CASE resource = "kv" -> [tasks EXCEPT !.kv = h]
      [] resource = "schema_read" -> [tasks EXCEPT !.schema_lock = ReadLocked(@, h)]
      [] resource = "schema_write" -> [tasks EXCEPT !.schema_lock = WriteLocked(@, h)]
      [] resource = "graph_read" -> [tasks EXCEPT !.graph_lock = ReadLocked(@, h)]
      [] resource = "graph_write" -> [tasks EXCEPT !.graph_lock = WriteLocked(@, h)]

\* h, waiting at from, gets what it waits for and goes on to to.
Await(h, from, to) ==
    /\ At(h, from)
    /\ Awaits(h) # "nothing"
    /\ Available(Awaits(h))
    /\ tasks' = [Granted(h, Awaits(h)) EXCEPT ![h].pc = to]
    /\ UNCHANGED <<db, graph, schema, last, ops, codec>>

\* h has a step to take: it has not returned, and what it waits for, if
\* anything, is to be had.
CanGo(h) == tasks[h].pc # "done" /\ Available(Awaits(h))

LockUpsertRequest ==
    Request("upsert_schema", tasks.upsert.entity, <<>>,
            [f \in Range(tasks.upsert.raw_fields) |-> <<>>])

\* upsert_schema up to its first run_db.
LockUpsertStart ==
    LET entity == to_lowercase(trim(tasks.upsert.entity))
        fields == TrimmedFields(tasks.upsert.raw_fields)
    IN /\ At("upsert", "start")
       /\ IF (entity # ENTITY_NODE /\ entity # ENTITY_EDGE) \/ fields = {}
          THEN /\ tasks' = [tasks EXCEPT !.upsert.pc = "done"]
               /\ Returned(LockUpsertRequest, "BAD_REQUEST")
          ELSE /\ tasks' = [tasks EXCEPT !.upsert.pc = "save"]
               /\ UNCHANGED <<last, ops>>
       /\ UNCHANGED <<db, graph, schema, codec>>

LockUpsertBeginSave == Await("upsert", "save", "saving")

LockUpsertSaveSchema ==
    /\ At("upsert", "saving")
    /\ db' = save_schema(db, to_lowercase(trim(tasks.upsert.entity)),
                         TrimmedFields(tasks.upsert.raw_fields))
    /\ tasks' = [tasks EXCEPT !.upsert.pc = "saved", !.kv = "none"]
    /\ UNCHANGED <<graph, schema, last, ops, codec>>

LockUpsertSchemaWrite == Await("upsert", "saved", "schema_write")

LockUpsertWriteSchema ==
    LET fields == TrimmedFields(tasks.upsert.raw_fields)
    IN /\ At("upsert", "schema_write")
       /\ schema' = IF to_lowercase(trim(tasks.upsert.entity)) = ENTITY_NODE
                    THEN [schema EXCEPT !.node_fields = fields, !.node_defined = TRUE]
                    ELSE [schema EXCEPT !.edge_fields = fields, !.edge_defined = TRUE]
       /\ tasks' = [tasks EXCEPT !.upsert.pc = "written",
                                 !.schema_lock = Released(@, "upsert")]
       /\ UNCHANGED <<db, graph, last, ops, codec>>

LockUpsertSchemaRead == Await("upsert", "written", "schema_read")

LockUpsertSnapshot ==
    /\ At("upsert", "schema_read")
    /\ tasks' = [tasks EXCEPT !.upsert.pc = "snapshot", !.upsert.schema_snapshot = schema,
                              !.schema_lock = Released(@, "upsert")]
    /\ UNCHANGED <<db, graph, schema, last, ops, codec>>

LockUpsertLoadGraph ==
    /\ At("upsert", "snapshot")
    /\ \E loaded \in {load_graph(db, tasks.upsert.schema_snapshot)} :
          tasks' = [tasks EXCEPT !.upsert.pc = "loaded", !.upsert.graph = loaded]
    /\ UNCHANGED <<db, graph, schema, last, ops, codec>>

LockUpsertGraphWrite == Await("upsert", "loaded", "graph_write")

LockUpsertReplaceGraph ==
    /\ At("upsert", "graph_write")
    /\ graph' = tasks.upsert.graph
    /\ tasks' = [tasks EXCEPT !.upsert.pc = "done", !.graph_lock = Released(@, "upsert")]
    /\ Returned(LockUpsertRequest, "NO_CONTENT")
    /\ UNCHANGED <<db, schema, codec>>

\* create_edge.
LockEdgeGraphRead == Await("edge", "start", "graph_read")

LockEdgeCheck ==
    LET req == tasks.edge.req
    IN /\ At("edge", "graph_read")
       /\ IF has_node(graph, req.from) /\ has_node(graph, req.to)
          THEN /\ tasks' = [tasks EXCEPT !.edge.pc = "checked",
                                         !.graph_lock = Released(@, "edge")]
               /\ UNCHANGED <<last, ops>>
          ELSE /\ tasks' = [tasks EXCEPT !.edge.pc = "done",
                                         !.graph_lock = Released(@, "edge")]
               /\ Returned(req, "NOT_FOUND")
       /\ UNCHANGED <<db, graph, schema, codec>>

LockEdgeBeginInsert == Await("edge", "checked", "inserting")

LockEdgeInsert ==
    /\ At("edge", "inserting")
    /\ db' = insert_edge(db, tasks.edge.req.from, tasks.edge.req.to)
    /\ tasks' = [tasks EXCEPT !.edge.pc = "inserted", !.kv = "none"]
    /\ UNCHANGED <<graph, schema, last, ops, codec>>

LockEdgeSchemaRead == Await("edge", "inserted", "schema_read")

LockEdgeSnapshot ==
    /\ At("edge", "schema_read")
    /\ tasks' = [tasks EXCEPT !.edge.pc = "snapshot", !.edge.schema = schema,
                              !.schema_lock = Released(@, "edge")]
    /\ UNCHANGED <<db, graph, schema, last, ops, codec>>

LockEdgeGraphWrite == Await("edge", "snapshot", "graph_write")

\* graph.add_edge, up to the run_db the handler awaits with the guard alive.
LockEdgeAdd ==
    /\ At("edge", "graph_write")
    /\ graph' = add_edge(graph, tasks.edge.req.from, tasks.edge.req.to)
    /\ tasks' = [tasks EXCEPT !.edge.pc = "added"]
    /\ UNCHANGED <<db, schema, last, ops, codec>>

LockEdgeBeginData == Await("edge", "added", "data")

LockEdgeData ==
    LET req == tasks.edge.req
        data == WithDefaultStatus(req.data)
        graph1 == SetEdgeDataAll(graph, tasks.edge.schema, req.from, req.to, data)
    IN /\ At("edge", "data")
       /\ db' = insert_edge_data_bulk(db, req.from, req.to, data)
       /\ graph' = graph1
       /\ IF IsBlockData(data) /\ req.from # req.to
          THEN /\ tasks' = [tasks EXCEPT
                              !.edge.pc = IF has_edge(graph1, req.to, req.from)
                                          THEN "mirrored" ELSE "mirror",
                              !.kv = "none"]
               /\ UNCHANGED <<last, ops>>
          ELSE /\ tasks' = [tasks EXCEPT !.edge.pc = "done", !.kv = "none",
                                         !.graph_lock = Released(@, "edge")]
               /\ Returned(req, "CREATED")
       /\ UNCHANGED <<schema, codec>>

LockEdgeBeginMirror == Await("edge", "mirror", "mirroring")

LockEdgeMirror ==
    /\ At("edge", "mirroring")
    /\ db' = insert_edge(db, tasks.edge.req.to, tasks.edge.req.from)
    /\ graph' = add_edge(graph, tasks.edge.req.to, tasks.edge.req.from)
    /\ tasks' = [tasks EXCEPT !.edge.pc = "mirrored", !.kv = "none"]
    /\ UNCHANGED <<schema, last, ops, codec>>

LockEdgeBeginMirrorData == Await("edge", "mirrored", "mirror_data")

LockEdgeMirrorData ==
    LET req == tasks.edge.req
        reverse_data == WithDefaultStatus(req.data)
    IN /\ At("edge", "mirror_data")
       /\ db' = insert_edge_data_bulk(db, req.to, req.from, reverse_data)
       /\ graph' = SetEdgeDataAll(graph, tasks.edge.schema, req.to, req.from, reverse_data)
       /\ tasks' = [tasks EXCEPT !.edge.pc = "done", !.kv = "none",
                                 !.graph_lock = Released(@, "edge")]
       /\ Returned(req, "CREATED")
       /\ UNCHANGED <<schema, codec>>

\* list_nearby.
LockNearbyRequest ==
    Request("list_nearby",
            IF tasks.nearby.query.start.ok THEN tasks.nearby.query.start.v ELSE <<>>,
            <<>>, EmptyMap)

LockNearbyStart ==
    LET query == tasks.nearby.query
    IN /\ At("nearby", "start")
       /\ IF \/ query.geo_hash_prefix = Some(<<>>)
             \/ ~query.geo_hash_prefix.ok /\ ~(query.lat.ok /\ query.lon.ok)
          THEN /\ tasks' = [tasks EXCEPT !.nearby.pc = "done",
                                         !.nearby.code = "BAD_REQUEST"]
               /\ Returned(LockNearbyRequest, "BAD_REQUEST")
          ELSE /\ tasks' = [tasks EXCEPT
                              !.nearby.pc = IF query.start.ok THEN "graph" ELSE "schema"]
               /\ UNCHANGED <<last, ops>>
       /\ UNCHANGED <<db, graph, schema, codec>>

LockNearbyGraphRead == Await("nearby", "graph", "graph_read")

\* The block of the start node: the excluded ids come of the cache as it is.
LockNearbyExcluded ==
    /\ At("nearby", "graph_read")
    /\ IF tasks.nearby.query.start.v \in DOMAIN graph
       THEN /\ tasks' = [tasks EXCEPT !.nearby.pc = "schema", !.nearby.graph = graph,
                                      !.graph_lock = Released(@, "nearby")]
            /\ UNCHANGED <<last, ops>>
       ELSE /\ tasks' = [tasks EXCEPT !.nearby.pc = "done", !.nearby.code = "NOT_FOUND",
                                      !.graph_lock = Released(@, "nearby")]
            /\ Returned(LockNearbyRequest, "NOT_FOUND")
    /\ UNCHANGED <<db, graph, schema, codec>>

LockNearbySchemaRead == Await("nearby", "schema", "schema_read")

LockNearbySnapshot ==
    /\ At("nearby", "schema_read")
    /\ tasks' = [tasks EXCEPT !.nearby.pc = "snapshot", !.nearby.schema = schema,
                              !.schema_lock = Released(@, "nearby")]
    /\ UNCHANGED <<db, graph, schema, last, ops, codec>>

\* run_db(list_nodes_by_geo_prefix), retain, truncate.
LockNearbyScan ==
    /\ At("nearby", "snapshot")
    /\ \E r \in {list_nearby([db |-> db, graph |-> tasks.nearby.graph,
                              schema |-> tasks.nearby.schema], tasks.nearby.query)} :
          /\ tasks' = [tasks EXCEPT !.nearby.pc = "done", !.nearby.code = r.code,
                                    !.nearby.results = r.results]
          /\ Returned(LockNearbyRequest, r.code)
    /\ UNCHANGED <<db, graph, schema, codec>>

\* delete_node.
LockDeleteBegin == Await("delete", "start", "deleting")

LockDeleteSoft ==
    /\ At("delete", "deleting")
    /\ \E r \in {soft_delete_node(db, tasks.delete.req.from)} :
          /\ db' = r.db
          /\ IF r.deleted
             THEN /\ tasks' = [tasks EXCEPT !.delete.pc = "deleted", !.kv = "none",
                                            !.delete.deleted = TRUE]
                  /\ UNCHANGED <<last, ops>>
             ELSE /\ tasks' = [tasks EXCEPT !.delete.pc = "done", !.kv = "none"]
                  /\ Returned(tasks.delete.req, "NOT_FOUND")
    /\ UNCHANGED <<graph, schema, codec>>

LockDeleteGraphWrite == Await("delete", "deleted", "graph_write")

LockDeleteRemove ==
    /\ At("delete", "graph_write")
    /\ graph' = remove_node(graph, tasks.delete.req.from)
    /\ tasks' = [tasks EXCEPT !.delete.pc = "done", !.graph_lock = Released(@, "delete")]
    /\ Returned(tasks.delete.req, "NO_CONTENT")
    /\ UNCHANGED <<db, schema, codec>>

UpsertSteps ==
    \/ LockUpsertStart
    \/ LockUpsertBeginSave
    \/ LockUpsertSaveSchema
    \/ LockUpsertSchemaWrite
    \/ LockUpsertWriteSchema
    \/ LockUpsertSchemaRead
    \/ LockUpsertSnapshot
    \/ LockUpsertLoadGraph
    \/ LockUpsertGraphWrite
    \/ LockUpsertReplaceGraph

EdgeSteps ==
    \/ LockEdgeGraphRead
    \/ LockEdgeCheck
    \/ LockEdgeBeginInsert
    \/ LockEdgeInsert
    \/ LockEdgeSchemaRead
    \/ LockEdgeSnapshot
    \/ LockEdgeGraphWrite
    \/ LockEdgeAdd
    \/ LockEdgeBeginData
    \/ LockEdgeData
    \/ LockEdgeBeginMirror
    \/ LockEdgeMirror
    \/ LockEdgeBeginMirrorData
    \/ LockEdgeMirrorData

NearbySteps ==
    \/ LockNearbyStart
    \/ LockNearbyGraphRead
    \/ LockNearbyExcluded
    \/ LockNearbySchemaRead
    \/ LockNearbySnapshot
    \/ LockNearbyScan

DeleteSteps ==
    \/ LockDeleteBegin
    \/ LockDeleteSoft
    \/ LockDeleteGraphWrite
    \/ LockDeleteRemove

LockNext == UpsertSteps \/ EdgeSteps \/ NearbySteps \/ DeleteSteps

LockSpec == LockInit /\ [][LockNext]_vars

\* The runtime polls every task that can go on, and the blocking pool runs
\* every closure handed to it: a handler that from some time on always has a
\* step to take takes one.  This is weak fairness of the steps of each
\* handler, written with CanGo for the enabling condition.
Polled(h) == []<>(~CanGo(h)) \/ []<><<tasks'[h].pc # tasks[h].pc>>_vars

LockFairSpec == LockSpec /\ \A h \in Handlers : Polled(h)

(***************************************************************************)
(* Startup.  main opens the store, fills the index tables that are empty,  *)
(* gives a status to the rows that have none, reads the whitelist and      *)
(* builds the cache, one step each.  The stores are what the handlers of   *)
(* this version and of one without the status property leave of the nodes  *)
(* a and c and of the edges between them: no row, the entity row alone (a  *)
(* create that stopped between its two commits), a property but no status, *)
(* status active, status deleted.                                          *)
(***************************************************************************)
StoredKinds == {"absent", "bare", "typed", "active", "deleted"}

StoredNode(d, id, kind) ==
    CASE kind = "absent" -> d
      [] kind = "bare" -> insert_node(d, id)
      [] kind = "typed" -> insert_node_data(insert_node(d, id), id, TYPE_KEY, USER)
      [] kind = "active" ->
            insert_node_data_bulk(insert_node(d, id), id,
                                  WithDefaultStatus(Map1(TYPE_KEY, TEAM)))
      [] kind = "deleted" ->
            insert_node_data_bulk(insert_node(d, id), id,
                                  Map2(TYPE_KEY, TEAM, STATUS_KEY, STATUS_DELETED))

StoredEdge(d, from, to, kind) ==
    CASE kind = "absent" -> d
      [] kind = "bare" -> insert_edge(d, from, to)
      [] kind = "typed" ->
            insert_edge_data(insert_edge(d, from, to), from, to, TYPE_KEY, FOLLOW)
      [] kind = "active" ->
            insert_edge_data_bulk(insert_edge(d, from, to), from, to,
                                  WithDefaultStatus(Map1(WEIGHT_KEY, TWO)))
      [] kind = "deleted" ->
            insert_edge_data_bulk(insert_edge(d, from, to), from, to,
                                  Map2(WEIGHT_KEY, TWO, STATUS_KEY, STATUS_DELETED))

\* The whitelists a store may hold: none, one of the nodes, one of the edges.
StoredSchemas == {None, Some(<<ENTITY_NODE, {TYPE_KEY}>>), Some(<<ENTITY_EDGE, {WEIGHT_KEY}>>)}

StartupInit ==
    /\ \E a, c, ac, ca \in StoredKinds, fields \in StoredSchemas :
       \E d1 \in {StoredNode(StoredNode(EmptyDb, ID_A, a), ID_C, c)} :
       \E d2 \in {StoredEdge(StoredEdge(d1, ID_A, ID_C, ac), ID_C, ID_A, ca)} :
          db = IF fields.ok THEN save_schema(d2, fields.v[1], fields.v[2]) ELSE d2
    /\ graph = NewGraph
    /\ schema = DefaultSchema
    /\ last = NoRequest
    /\ ops = 0
    /\ codec = CodecIdle
    /\ tasks = [phase |-> "opened"]

StartupRebuild ==
    /\ tasks.phase = "opened"
    /\ \E rebuilt \in {rebuild_indexes_if_empty(db)} : db' = rebuilt
    /\ tasks' = [tasks EXCEPT !.phase = "rebuilt"]
    /\ UNCHANGED <<graph, schema, last, ops, codec>>

StartupBackfill ==
    /\ tasks.phase = "rebuilt"
    /\ \E filled \in {ensure_status_defaults(db)} : db' = filled
    /\ tasks' = [tasks EXCEPT !.phase = "backfilled"]
    /\ UNCHANGED <<graph, schema, last, ops, codec>>

StartupLoadSchema ==
    /\ tasks.phase = "backfilled"
    /\ schema' = load_schema(db)
    /\ tasks' = [tasks EXCEPT !.phase = "schema"]
    /\ UNCHANGED <<db, graph, last, ops, codec>>

StartupLoadGraph ==
    /\ tasks.phase = "schema"
    /\ \E loaded \in {load_graph(db, schema)} : graph' = loaded
    /\ tasks' = [tasks EXCEPT !.phase = "serving"]
    /\ UNCHANGED <<db, schema, last, ops, codec>>

\* The process ends and is started again on the same store.
StartupAgain ==
    /\ tasks.phase = "serving"
    /\ ops < 1
    /\ ops' = ops + 1
    /\ graph' = NewGraph
    /\ schema' = DefaultSchema
    /\ tasks' = [tasks EXCEPT !.phase = "opened"]
    /\ UNCHANGED <<db, last, codec>>

StartupNext ==
    \/ StartupRebuild
    \/ StartupBackfill
    \/ StartupLoadSchema
    \/ StartupLoadGraph
    \/ StartupAgain

StartupSpec == StartupInit /\ [][StartupNext]_vars

(***************************************************************************)
(* Path search.  The servers hold the nodes a, b and c and any set of the  *)
(* nine edges between them, self-loops and cycles among them; a path is    *)
(* asked for between any two of the nodes, or from or to a missing one.    *)
(***************************************************************************)
PathPairs ==
    <<(<<ID_A, ID_A>>), (<<ID_A, ID_B>>), (<<ID_A, ID_C>>),
      (<<ID_B, ID_C>>), (<<ID_B, ID_A>>), (<<ID_B, ID_B>>),
      (<<ID_C, ID_B>>), (<<ID_C, ID_A>>), (<<ID_C, ID_C>>)>>

RECURSIVE WithEdgesOf(_, _)
WithEdgesOf(st, pairs) ==
    IF pairs = <<>> THEN st
    ELSE WithEdgesOf(StateOf(create_edge(st, Head(pairs)[1], Head(pairs)[2], EmptyMap)),
                     Tail(pairs))

PathEnds == Ids \cup {REC_MISSING}

PathInit ==
    /\ \E edges \in SUBSET Range(PathPairs) :
       \E s \in {WithEdgesOf(WithNodes, SelectSeq(PathPairs, LAMBDA pair : pair \in edges))} :
          db = s.db /\ graph = s.graph /\ schema = s.schema
    /\ last = NoRequest
    /\ ops = 0
    /\ codec = CodecIdle
    /\ tasks = NoTasks

\* GET /path: last keeps the search with the reply.
CheckPath ==
    \E start \in PathEnds, end \in PathEnds :
        \E r \in {dfs(graph, start, end, {})} :
           /\ ops < 1
           /\ ops' = ops + 1
           /\ last' = [op |-> "check_path", from |-> start, to |-> end, data |-> EmptyMap,
                       code |-> "OK", found |-> check_path(Cur, start, end),
                       calls |-> r.calls]
           /\ UNCHANGED <<db, graph, schema, codec, tasks>>

PathNext == CheckPath

PathSpec == PathInit /\ [][PathNext]_vars

(***************************************************************************)
(* Storage failures.  run_db turns an error of the blocking closure into   *)
(* 500 and `?` returns it at once; the failed transaction is dropped       *)
(* without commit, so it leaves the store as it was.  `failed` numbers the *)
(* handler's transactions in the order it starts them; 0 is no failure.    *)
(***************************************************************************)
StorageFailure(d, g, sch) == Reply(d, g, sch, "INTERNAL_SERVER_ERROR")

\* create_node: 1 is insert_node, 2 is insert_node_data_bulk.
create_node_with_failure(st, id, payload, failed) ==
    LET data == WithDefaultStatus(payload)
        db1 == insert_node(st.db, id)
        graph1 == add_node(st.graph, id)
    IN CASE failed = 1 -> StorageFailure(st.db, st.graph, st.schema)
         [] failed = 2 -> StorageFailure(db1, graph1, st.schema)
         [] OTHER -> create_node(st, id, payload)

\* create_edge: 1 is insert_edge, 2 is insert_edge_data_bulk, 3 is the
\* insert_edge of the reverse direction (started only when the cache lacks
\* it), 4 is the insert_edge_data_bulk of the reverse direction.
create_edge_with_failure(st, from, to, payload, failed) ==
    LET data == WithDefaultStatus(payload)
        mirror == IsBlockData(data) /\ from # to
        present == has_edge(st.graph, to, from)
        db1 == insert_edge(st.db, from, to)
        graph1 == add_edge(st.graph, from, to)
        db2 == insert_edge_data_bulk(db1, from, to, data)
        graph2 == SetEdgeDataAll(graph1, st.schema, from, to, data)
        db3 == IF present THEN db2 ELSE insert_edge(db2, to, from)
        graph3 == IF present THEN graph2 ELSE add_edge(graph2, to, from)
    IN CASE ~has_node(st.graph, from) \/ ~has_node(st.graph, to) ->
                Reply(st.db, st.graph, st.schema, "NOT_FOUND")
         [] failed = 1 -> StorageFailure(st.db, st.graph, st.schema)
         [] failed = 2 -> StorageFailure(db1, graph1, st.schema)
         [] failed = 3 /\ mirror /\ ~present -> StorageFailure(db2, graph2, st.schema)
         [] failed = 4 /\ mirror -> StorageFailure(db3, graph3, st.schema)
         [] OTHER -> create_edge(st, from, to, payload)

FailServers == {Fresh, WithNodes, WithEdges}

FailInit ==
    /\ \E s \in FailServers : db = s.db /\ graph = s.graph /\ schema = s.schema
    /\ last = NoRequest
    /\ ops = 0
    /\ codec = CodecIdle
    /\ tasks = NoTasks

\* POST /nodes while the store may fail; last keeps which transaction failed.
FailCreateNode ==
    /\ ops < MaxOps
    /\ \E id \in Ids, payload \in NodePayloads, failed \in 0..2 :
           \E r \in {create_node_with_failure(Cur, id, payload, failed)} :
              /\ ops' = ops + 1
              /\ db' = r.db /\ graph' = r.graph /\ schema' = r.schema
              /\ last' = [op |-> "create_node", from |-> id, to |-> <<>>, data |-> payload,
                          code |-> r.code, failed |-> failed]
              /\ UNCHANGED <<codec, tasks>>

\* POST /edges while the store may fail.
FailCreateEdge ==
    /\ ops < MaxOps
    /\ \E from \in Ids, to \in Ids, payload \in EdgePayloads, failed \in 0..4 :
           \E r \in {create_edge_with_failure(Cur, from, to, payload, failed)} :
              /\ ops' = ops + 1
              /\ db' = r.db /\ graph' = r.graph /\ schema' = r.schema
              /\ last' = [op |-> "create_edge", from |-> from, to |-> to, data |-> payload,
                          code |-> r.code, failed |-> failed]
              /\ UNCHANGED <<codec, tasks>>

FailNext == FailCreateNode \/ FailCreateEdge

FailSpec == FailInit /\ [][FailNext]_vars

(***************************************************************************)
(* The decode LRU.  order is the VecDeque, oldest first; map is the        *)
(* HashMap.  A call returns the cache it leaves with its result.           *)
(***************************************************************************)
NewLruCache(capacity) ==
    [capacity |-> IF capacity > 1 THEN capacity ELSE 1, order |-> <<>>, map |-> EmptyMap]

\* The order as the faulty touch leaves it: unchanged.
KeepOrder(cache, key) == cache

\* Move the first occurrence of key to the back of order.
touch(cache, key) ==
    IF \E i \in DOMAIN cache.order : cache.order[i] = key
    THEN LET position == CHOOSE i \in DOMAIN cache.order :
                             /\ cache.order[i] = key
                             /\ \A j \in 1..(i - 1) : cache.order[j] # key
             removed == SubSeq(cache.order, 1, position - 1)
                            \o SubSeq(cache.order, position + 1, Len(cache.order))
         IN [cache EXCEPT !.order = Append(removed, key)]
    ELSE cache

get(cache, key) ==
    IF key \in DOMAIN cache.map
    THEN [cache |-> touch(cache, key), result |-> Some(cache.map[key])]
    ELSE [cache |-> cache, result |-> None]

insert(cache, key, value) ==
    IF key \in DOMAIN cache.map
    THEN touch([cache EXCEPT !.map = Put(cache.map, key, value)], key)
    ELSE LET full == Cardinality(DOMAIN cache.map) >= cache.capacity
             popped == full /\ cache.order # <<>>
             order1 == IF popped THEN Tail(cache.order) ELSE cache.order
             map1 == IF popped
                     THEN [k \in DOMAIN cache.map \ {Head(cache.order)} |-> cache.map[k]]
                     ELSE cache.map
         IN [cache EXCEPT !.order = Append(order1, key), !.map = Put(map1, key, value)]

decode_component_cached(value, cache) ==
    LET cached == get(cache, value)
        decoded == decode_component(value)
    IN IF cached.result.ok THEN cached
       ELSE IF ~decoded.ok THEN [cache |-> cache, result |-> None]
       ELSE [cache |-> insert(cache, value, decoded.v), result |-> decoded]

MaxCalls == 5

\* Encoded components: "a", "%1F", "%25", and "%", which does not decode.
LruKeys == {<<97>>, <<PERCENT, 49, 70>>, <<PERCENT, 50, 53>>, <<PERCENT>>}

LruValues == {<<97>>, <<KEY_SEP>>}

LruCapacities == 0..2

\* tasks.cache is called with any get and insert; tasks.decode_cache is the
\* one a loader hands to decode_component_cached.  used maps a key to the time
\* of its last hit or insert, born to the time it entered the map.
LruInit ==
    /\ db = EmptyDb
    /\ graph = NewGraph
    /\ schema = DefaultSchema
    /\ last = NoRequest
    /\ ops = 0
    /\ codec = CodecIdle
    /\ \E capacity \in LruCapacities :
          tasks = [cache |-> NewLruCache(capacity), used |-> EmptyMap, born |-> EmptyMap,
                   decode_cache |-> NewLruCache(capacity), decode_used |-> EmptyMap]

\* The keys of before that after no longer has.
Evicted(before, after) == DOMAIN before.map \ DOMAIN after.map

\* The stamps of the keys that map still has.
StampsOf(stamps, map) == [k \in DOMAIN stamps \cap DOMAIN map |-> stamps[k]]

LruGet ==
    /\ ops < MaxCalls
    /\ \E key \in LruKeys :
          \E r \in {get(tasks.cache, key)} :
             /\ tasks' = [tasks EXCEPT !.cache = r.cache,
                                       !.used = IF r.result.ok THEN Put(@, key, ops + 1)
                                                ELSE @]
             /\ last' = [op |-> "get", key |-> key, result |-> r.result, evicted |-> {},
                         full |-> FALSE, oldest |-> {}, outlived |-> FALSE]
    /\ ops' = ops + 1
    /\ UNCHANGED <<db, graph, schema, codec>>

\* last keeps what the call removed, whether it found the map full with a new
\* key, which keys were then used longest ago, and whether the removed key
\* had entered the map after one that stays.
LruInsert ==
    /\ ops < MaxCalls
    /\ \E key \in LruKeys, value \in LruValues :
          \E after \in {insert(tasks.cache, key, value)} :
             LET gone == Evicted(tasks.cache, after)
                 was_new == key \notin DOMAIN tasks.cache.map
             IN /\ tasks' = [tasks EXCEPT
                               !.cache = after,
                               !.used = Put(StampsOf(@, after.map), key, ops + 1),
                               !.born = IF was_new
                                        THEN Put(StampsOf(@, after.map), key, ops + 1)
                                        ELSE @]
                /\ last' = [op |-> "insert", key |-> key, result |-> Some(value),
                            evicted |-> gone,
                            full |-> /\ was_new
                                     /\ Cardinality(DOMAIN tasks.cache.map)
                                            >= tasks.cache.capacity,
                            oldest |-> {k \in DOMAIN tasks.cache.map :
                                          \A j \in DOMAIN tasks.cache.map :
                                              tasks.used[k] <= tasks.used[j]},
                            outlived |-> \E k \in gone, j \in DOMAIN after.map \ {key} :
                                             tasks.born[j] < tasks.born[k]]
    /\ ops' = ops + 1
    /\ UNCHANGED <<db, graph, schema, codec>>

LruDecode ==
    /\ ops < MaxCalls
    /\ \E value \in LruKeys :
          \E r \in {decode_component_cached(value, tasks.decode_cache)} :
             LET gone == Evicted(tasks.decode_cache, r.cache)
             IN /\ tasks' = [tasks EXCEPT
                               !.decode_cache = r.cache,
                               !.decode_used = IF r.result.ok
                                               THEN Put(StampsOf(@, r.cache.map), value, ops + 1)
                                               ELSE @]
                /\ last' = [op |-> "decode_component_cached", key |-> value,
                            result |-> r.result, evicted |-> gone,
                            full |-> /\ value \notin DOMAIN tasks.decode_cache.map
                                     /\ r.result.ok
                                     /\ Cardinality(DOMAIN tasks.decode_cache.map)
                                            >= tasks.decode_cache.capacity,
                            oldest |-> {k \in DOMAIN tasks.decode_cache.map :
                                          \A j \in DOMAIN tasks.decode_cache.map :
                                              tasks.decode_used[k] <= tasks.decode_used[j]},
                            hit |-> value \in DOMAIN tasks.decode_cache.map]
    /\ ops' = ops + 1
    /\ UNCHANGED <<db, graph, schema, codec>>

LruNext == LruGet \/ LruInsert \/ LruDecode

LruSpec == LruInit /\ [][LruNext]_vars

(***************************************************************************)
(* Properties.  The persisted view of a store d, read row by row.          *)
(***************************************************************************)
NodeRow(d, id, key) == Get(d.node_data, node_data_key(id, key))

EdgeRow(d, from, to, key) == Get(d.edge_data, edge_data_key(from, to, key))

PersistedActiveNodes(d) ==
    {id \in Ids : /\ encode_component(id) \in d.nodes
                  /\ NodeRow(d, id, STATUS_KEY) = Some(STATUS_ACTIVE)}

PersistedActiveEdges(d) ==
    {e \in Ids \X Ids : /\ edge_key(e[1], e[2]) \in d.edges
                        /\ EdgeRow(d, e[1], e[2], STATUS_KEY) = Some(STATUS_ACTIVE)
                        /\ e[1] \in PersistedActiveNodes(d)
                        /\ e[2] \in PersistedActiveNodes(d)}

CachedEdges(g) == {e \in Ids \X Ids : has_edge(g, e[1], e[2])}

\* C1 (index coherence): every row of node_data has its row in node_index and
\* in geo_index, every row of edge_data its row in edge_index, each carrying
\* the row's key, current value and entity; every index row is the one row
\* built from a current property row, so none refers to an overwritten value;
\* and the tables pair off one to one.
IndexCoherence ==
    /\ \A rk \in DOMAIN db.node_data :
          LET p == split_two_decoded(rk)
          IN /\ p.ok
             /\ node_index_key(p.v[2], db.node_data[rk], p.v[1]) \in db.node_index
             /\ geo_index_key(p.v[2], db.node_data[rk], p.v[1]) \in db.geo_index
    /\ \A rk \in DOMAIN db.edge_data :
          LET p == split_three_decoded(rk)
          IN /\ p.ok
             /\ edge_index_key(p.v[3], db.edge_data[rk], p.v[1], p.v[2]) \in db.edge_index
    /\ \A ik \in db.node_index \cup db.geo_index :
          LET q == split_three_decoded(ik)
          IN /\ q.ok
             /\ ik = node_index_key(q.v[1], q.v[2], q.v[3])
             /\ NodeRow(db, q.v[3], q.v[1]) = Some(q.v[2])
    /\ \A ik \in db.edge_index :
          LET q == split_four_decoded(ik)
          IN /\ q.ok
             /\ ik = edge_index_key(q.v[1], q.v[2], q.v[3], q.v[4])
             /\ EdgeRow(db, q.v[3], q.v[4], q.v[1]) = Some(q.v[2])
    /\ Cardinality(db.node_index) = Cardinality(DOMAIN db.node_data)
    /\ Cardinality(db.geo_index) = Cardinality(DOMAIN db.node_data)
    /\ Cardinality(db.edge_index) = Cardinality(DOMAIN db.edge_data)

\* A first request has overwritten the type of node a, which every server
\* that has node a stores as user, or has soft-deleted node b with its edges.
IndexCoherenceWitness ==
    /\ ops = 1
    /\ last.code = "NO_CONTENT"
    /\ \/ /\ last.op = "set_node_data" /\ last.from = ID_A
          /\ last.data = Map1(TYPE_KEY, TEAM)
          /\ NodeRow(db, ID_A, TYPE_KEY) = Some(TEAM)
          /\ node_index_key(TYPE_KEY, USER, ID_A) \notin db.node_index
       \/ /\ last.op = "delete_node" /\ last.from = ID_B
          /\ EdgeRow(db, ID_A, ID_B, STATUS_KEY) = Some(STATUS_DELETED)

\* C2 (cache node set): the ids of the cache are the persisted nodes whose
\* status is active.
CacheNodeSet == DOMAIN graph = PersistedActiveNodes(db)

\* C3 (cache edge set): the (from, to) edges of the cache are the persisted
\* edges whose status is active and whose two endpoints are active nodes.
CacheEdgeSet == CachedEdges(graph) = PersistedActiveEdges(db)

\* C4 (cache property maps): every cached node and every cached edge carries
\* its persisted property map restricted to the whitelisted keys.
CachePropertyMaps ==
    \A id \in DOMAIN graph :
        /\ graph[id].data = filter_node_data(schema, load_node_data_for_id(db, id))
        /\ \A edge \in Range(graph[id].neighbors) :
              edge.data = filter_edge_data(schema, load_edge_data_for_edge(db, id, edge.to))

\* C5 (block creation is symmetric): once create_edge with data.type = block,
\* or create_block, has answered for a # b, the rows of a->b and of b->a exist
\* with status active, both edges are cached, and the two directions carry the
\* same property payload in the store and in the cache.
BlockCreationSymmetric ==
    LET a == last.from
        b == last.to
        CachedData(from, to) ==
            {edge.data : edge \in {x \in Range(graph[from].neighbors) : x.to = to}}
    IN (/\ last.code = "CREATED"
        /\ a # b
        /\ \/ last.op = "create_block"
           \/ last.op = "create_edge" /\ IsBlockData(last.data))
       => /\ edge_key(a, b) \in db.edges
          /\ edge_key(b, a) \in db.edges
          /\ EdgeRow(db, a, b, STATUS_KEY) = Some(STATUS_ACTIVE)
          /\ EdgeRow(db, b, a, STATUS_KEY) = Some(STATUS_ACTIVE)
          /\ has_edge(graph, a, b)
          /\ has_edge(graph, b, a)
          /\ load_edge_data_for_edge(db, a, b) = load_edge_data_for_edge(db, b, a)
          /\ CachedData(a, b) = CachedData(b, a)

\* C6 (block symmetry invariant): for cached nodes a # b, a cached edge a->b
\* whose type is block has its counter-edge b->a cached.
BlockSymmetryInvariant ==
    \A a \in Ids, b \in Ids :
        (a # b /\ has_edge(graph, a, b) /\ edge_type(graph, a, b) = Some(BLOCK))
            => has_edge(graph, b, a)

\* C7 (block updates are mirrored): a set_edge_data or patch_edge that updates
\* an active edge a->b of type block, a # b, leaves every key and value of
\* the update on the counter-edge b->a, and two directions that carried the
\* same payload before the update carry the same payload after it.
BlockUpdatesMirrored ==
    [][LET a == last'.from
           b == last'.to
       IN (/\ last'.op \in {"set_edge_data", "patch_edge"}
           /\ last'.code = "NO_CONTENT"
           /\ a # b
           /\ has_edge(graph, a, b)
           /\ EdgeRow(db, a, b, TYPE_KEY) = Some(BLOCK))
          => /\ \A k \in DOMAIN last'.data : EdgeRow(db', b, a, k) = Some(last'.data[k])
             /\ load_edge_data_for_edge(db, a, b) = load_edge_data_for_edge(db, b, a)
                    => load_edge_data_for_edge(db', a, b) = load_edge_data_for_edge(db', b, a)
      ]_vars

\* C8 (delete_edge mirrors iff block): a delete_edge(from, to) that answers
\* for from # to soft-deletes the reverse edge in the store and drops it from
\* the cache when the stored type of (from, to) is block, whatever the
\* whitelist, and otherwise leaves the reverse edge as it was in both.
DeleteEdgeMirrorsIffBlock ==
    [][LET from == last'.from
           to == last'.to
           Cached(g) == IF to \in DOMAIN g
                        THEN {edge \in Range(g[to].neighbors) : edge.to = from}
                        ELSE {}
       IN (last'.op = "delete_edge" /\ last'.code = "NO_CONTENT" /\ from # to)
          => IF EdgeRow(db, from, to, TYPE_KEY) = Some(BLOCK)
             THEN /\ edge_key(to, from) \in db.edges
                        => EdgeRow(db', to, from, STATUS_KEY) = Some(STATUS_DELETED)
                  /\ ~has_edge(graph', to, from)
             ELSE /\ load_edge_data_for_edge(db', to, from)
                        = load_edge_data_for_edge(db, to, from)
                  /\ Cached(graph') = Cached(graph)
      ]_vars

\* The queries of the read handlers.
Hydrate == BOOLEAN
NodeTypeFilters == {None, Some(USER), Some(TEAM)}
EdgeTypeFilters == {None, Some(BLOCK), Some(FOLLOW)}
IdFilters == {None} \cup {Some(id) : id \in Ids}

\* id is hidden in state st: get_node does not find it, no list_nodes result
\* has it, no list_edges result has an edge from or to it, and the cache holds
\* neither the node nor an edge to it.
Hidden(st, id) ==
    /\ \A h \in Hydrate : get_node(st, id, h) = None
    /\ \A t \in NodeTypeFilters, h \in Hydrate :
          \A view \in Range(list_nodes(st, t, h)) : view.id # id
    /\ \A t \in EdgeTypeFilters, f \in IdFilters, g \in IdFilters, h \in Hydrate :
          \A edge \in Range(list_edges(st, t, f, g, h)) : edge.from # id /\ edge.to # id
    /\ ~has_node(st.graph, id)
    /\ \A from \in Ids : ~has_edge(st.graph, from, id)

\* C9 (delete_node hides the node and its edges, and keeps the rows): once
\* delete_node(id) has answered, id is hidden from get_node, list_nodes,
\* list_edges and the cache, and every row the tables held is still there.
DeleteNodeHidesNode ==
    [][(last'.op = "delete_node" /\ last'.code = "NO_CONTENT")
          => /\ Hidden([db |-> db', graph |-> graph', schema |-> schema'], last'.from)
             /\ encode_component(last'.from) \in db'.nodes
             /\ db.nodes \subseteq db'.nodes
             /\ db.edges \subseteq db'.edges
             /\ DOMAIN db.node_data \subseteq DOMAIN db'.node_data
             /\ DOMAIN db.edge_data \subseteq DOMAIN db'.edge_data
      ]_vars

\* delete_node has answered for node b, whose rows show one outgoing edge
\* (b->c) and two incoming ones (a->b, c->b).
DeleteNodeHidesNodeWitness ==
    /\ last.op = "delete_node"
    /\ last.code = "NO_CONTENT"
    /\ last.from = ID_B
    /\ {edge_key(ID_A, ID_B), edge_key(ID_B, ID_C), edge_key(ID_C, ID_B)} \subseteq db.edges
    /\ EdgeRow(db, ID_A, ID_B, STATUS_KEY) = Some(STATUS_DELETED)
    /\ NodeRow(db, ID_B, STATUS_KEY) = Some(STATUS_DELETED)

\* The ids reachable from the ids of seen along cached edges, seen included.
RECURSIVE ReachSet(_, _)
ReachSet(g, seen) ==
    LET next == seen \cup {edge.to : edge \in UNION {Range(g[id].neighbors) :
                                                        id \in seen \cap DOMAIN g}}
    IN IF next = seen THEN seen ELSE ReachSet(g, next)

\* C10 (exist_path): the answer of check_path(start, end) is true exactly when
\* start and end are nodes of the cache and end is reachable from start along
\* cached edges, the empty path included; so a query from or to a node that
\* is not cached, a soft-deleted one among them, answers false.
ExistPathIffReachable ==
    \A start \in Ids, end \in Ids :
        check_path(Cur, start, end)
            <=> /\ has_node(graph, start)
                /\ has_node(graph, end)
                /\ end \in ReachSet(graph, {start})

\* C11 (encode/decode round trip): decoding the encoding of a string gives
\* the string back, whatever separators, '%' and non-ASCII characters it has.
EncodeDecodeRoundTrip ==
    (codec.step = "split" /\ codec.op = "encode_component")
        => codec.parts = Some(codec.comps[1])

\* A string with the separator, '%' and a two-byte character has been encoded
\* and decoded.
EncodeDecodeRoundTripWitness ==
    /\ codec.step = "split"
    /\ codec.op = "encode_component"
    /\ codec.comps = << <<KEY_SEP, PERCENT, 195, 169>> >>
    /\ codec.key # codec.comps[1]

\* C12 (composite keys are unambiguous): a built key holds the separator only
\* between its components, splitting it into the expected number of parts
\* and decoding them gives the components back, and no other tuple of
\* components builds the same key.
CompositeKeysUnambiguous ==
    LET separators == {i \in 1..Len(codec.key) : codec.key[i] = KEY_SEP}
    IN /\ codec.step \in {"built", "split"}
            => Cardinality(separators) = Len(codec.comps) - 1
       /\ (codec.step = "split" /\ codec.op # "encode_component")
            => codec.parts = Some(codec.comps)
       /\ (codec.step = "built" /\ codec.op # "encode_component")
            => \A other \in Tuples(Len(codec.comps)) :
                  BuildKey(codec.op, other) = codec.key => other = codec.comps

\* A four-component key whose components are the escape text "%1F", the
\* separator, the empty string and "a" has been built, split and decoded.
CompositeKeysUnambiguousWitness ==
    /\ codec.step = "split"
    /\ codec.op = "edge_index_key"
    /\ codec.comps = << <<PERCENT, 49, 70>>, <<KEY_SEP>>, <<>>, <<97>> >>

\* The ids a list of node views holds, and the (from, to) pairs a list of
\* edge views holds.
ViewIds(views) == {view.id : view \in Range(views)}

ViewPairs(views) == {<<view.from, view.to>> : view \in Range(views)}

\* C13 (typed listings are exact): get_node answers with the id it was asked
\* for, for an id with '%' or the separator or with another id as a prefix
\* as for any other; list_nodes(type = T) lists, once each, exactly the
\* stored nodes with status active and type T, and list_edges(type = T)
\* exactly the stored edges with status active and type T.
TypedListingsExact ==
    /\ \A id \in Ids, h \in Hydrate :
          LET r == get_node(Cur, id, h)
          IN /\ r.ok => r.v.id = id
             /\ r.ok <=> id \in PersistedActiveNodes(db)
    /\ \A T \in {USER, TEAM}, h \in Hydrate :
          LET views == list_nodes(Cur, Some(T), h)
          IN /\ ViewIds(views) = {id \in PersistedActiveNodes(db) :
                                     NodeRow(db, id, TYPE_KEY) = Some(T)}
             /\ Len(views) = Cardinality(ViewIds(views))
    /\ \A T \in {BLOCK, FOLLOW}, h \in Hydrate :
          LET views == list_edges(Cur, Some(T), None, None, h)
          IN /\ ViewPairs(views)
                    = {e \in Ids \X Ids : /\ edge_key(e[1], e[2]) \in db.edges
                                          /\ EdgeRow(db, e[1], e[2], STATUS_KEY)
                                                = Some(STATUS_ACTIVE)
                                          /\ EdgeRow(db, e[1], e[2], TYPE_KEY) = Some(T)}
             /\ Len(views) = Cardinality(ViewPairs(views))

\* The type of node "a%" has just been set to team, and the listing of the
\* team nodes has it next to the node whose id ends in the separator.
TypedListingsExactWitness ==
    /\ last.op = "set_node_data"
    /\ last.from = ID_B
    /\ last.data = Map1(TYPE_KEY, TEAM)
    /\ last.code = "NO_CONTENT"
    /\ ViewIds(list_nodes(Cur, Some(TEAM), TRUE)) = {ID_B, ID_C}
    /\ get_node(Cur, ID_B, TRUE).ok
    /\ ViewPairs(list_edges(Cur, Some(BLOCK), None, None, TRUE)) = {<<ID_B, ID_C>>, <<ID_C, ID_B>>}

\* C14 (whitelist filtering): once upsert_schema has returned, whatever write
\* handlers ran beside it or after it, every cached node's property keys lie
\* within a defined node whitelist and every cached edge's within a defined
\* edge whitelist.
WhitelistFiltering ==
    tasks.upsert.pc \in {"idle", "done"} =>
        /\ schema.node_defined =>
              \A id \in DOMAIN graph : DOMAIN graph[id].data \subseteq schema.node_fields
        /\ schema.edge_defined =>
              \A id \in DOMAIN graph : \A i \in DOMAIN graph[id].neighbors :
                  DOMAIN graph[id].neighbors[i].data \subseteq schema.edge_fields

\* The property keys of the requests.
PropertyKeys == {STATUS_KEY, TYPE_KEY, WEIGHT_KEY}

\* The hydrate parameter of a query: absent, true or false.
HydrateQueries == {None, Some(TRUE), Some(FALSE)}

\* The property rows the store holds of node id, as a map.
PersistedNodeData(d, id) ==
    [key \in {k \in PropertyKeys : NodeRow(d, id, k).ok} |-> NodeRow(d, id, key).v]

\* What a read with query parameter hydrate is to answer for node id under
\* node whitelist F: the whole stored map, or its part with keys in F.
ExpectedNodeData(d, id, F, hydrate) ==
    LET data == PersistedNodeData(d, id)
    IN IF hydrate = Some(FALSE) THEN [key \in DOMAIN data \cap F |-> data[key]] ELSE data

\* C15 (hydration bypasses the whitelist): with a node whitelist F in force,
\* get_node and list_nodes answer hydrate=false with, for each node, exactly
\* its stored properties with keys in F, and hydrate=true or no hydrate
\* parameter with its whole stored property map.
HydrationBypassesWhitelist ==
    schema.node_defined =>
        \A q \in HydrateQueries :
            /\ \A id \in Ids :
                  LET r == get_node(Cur, id, hydrate_or_default(q))
                  IN r.ok => r.v.data = ExpectedNodeData(db, id, schema.node_fields, q)
            /\ \A T \in NodeTypeFilters :
                  LET views == list_nodes(Cur, T, hydrate_or_default(q))
                  IN \A i \in DOMAIN views :
                        views[i].data
                            = ExpectedNodeData(db, views[i].id, schema.node_fields, q)

\* A node created under the whitelist [type] with a type: read with
\* hydrate=false it shows its type only, read without the parameter its
\* status too.
HydrationBypassesWhitelistWitness ==
    /\ schema.node_defined
    /\ schema.node_fields = {TYPE_KEY}
    /\ last.op = "create_node"
    /\ last.code = "CREATED"
    /\ get_node(Cur, last.from, FALSE).v.data = Map1(TYPE_KEY, USER)
    /\ get_node(Cur, last.from, hydrate_or_default(None)).v.data
           = Map2(TYPE_KEY, USER, STATUS_KEY, STATUS_ACTIVE)
    /\ \E i \in DOMAIN list_nodes(Cur, None, FALSE) :
          list_nodes(Cur, None, FALSE)[i] = [id |-> last.from, data |-> Map1(TYPE_KEY, USER),
                                             edges |-> <<>>]

\* C16 (upsert_whitelist): a request whose entity, trimmed and in lower
\* case, is neither node nor edge, or whose fields are all blank once
\* trimmed, is answered BAD_REQUEST and changes neither the store nor the
\* in-memory whitelist nor the cache; any other request is answered
\* NO_CONTENT, stores under the entity the trimmed fields in ascending order
\* without repetition, makes them the entity's in-memory whitelist, and
\* leaves as cache what load_graph builds of the store under the new
\* whitelist.
UpsertWhitelistEffect ==
    [][last'.op = "upsert_schema" =>
          LET entity == to_lowercase(trim(last'.from))
              F == {trim(f) : f \in DOMAIN last'.data} \ {<<>>}
              stored == deserialize_schema_fields(db'.schema[entity])
          IN IF entity \notin {ENTITY_NODE, ENTITY_EDGE} \/ F = {}
             THEN /\ last'.code = "BAD_REQUEST"
                  /\ db' = db
                  /\ schema' = schema
                  /\ graph' = graph
             ELSE /\ last'.code = "NO_CONTENT"
                  /\ db' = [db EXCEPT !.schema = db'.schema]
                  /\ DOMAIN db'.schema = DOMAIN db.schema \cup {entity}
                  /\ \A e \in DOMAIN db.schema \ {entity} : db'.schema[e] = db.schema[e]
                  /\ Range(stored) = F
                  /\ \A i \in 1..(Len(stored) - 1) : LexLT(stored[i], stored[i + 1])
                  /\ IF entity = ENTITY_NODE
                     THEN schema' = [schema EXCEPT !.node_fields = F, !.node_defined = TRUE]
                     ELSE schema' = [schema EXCEPT !.edge_fields = F, !.edge_defined = TRUE]
                  /\ graph' = load_graph(db', schema')
                  /\ \A id \in DOMAIN graph' :
                        graph'[id].data = filter_node_data(schema', PersistedNodeData(db', id))
    ]_vars

\* The edge whitelist [" type ", "", "type"] of entity " Edge" has been
\* stored as the one field type, and a cached edge has lost its status.
UpsertWhitelistEffectWitness ==
    /\ last.op = "upsert_schema"
    /\ last.from = EDGE_SPACED
    /\ last.code = "NO_CONTENT"
    /\ db.schema[ENTITY_EDGE] = TYPE_KEY
    /\ schema.edge_fields = {TYPE_KEY}
    /\ has_edge(graph, ID_B, ID_C)
    /\ STATUS_KEY \notin DOMAIN graph[ID_B].neighbors[1].data

\* The cache g holds no node id, and no edge from -> to.
NodeMissing(g, id) == id \notin DOMAIN g

EdgeMissing(g, from, to) ==
    from \notin DOMAIN g \/ \A i \in DOMAIN g[from].neighbors : g[from].neighbors[i].to # to

\* C17 (precondition failures change nothing): create_edge and create_block
\* with an endpoint the cache does not hold, set_node_data and patch_node on
\* a node it does not hold, set_edge_data and patch_edge on an edge it does
\* not hold, are answered NOT_FOUND and leave every table of the store and
\* the cache as they were.
PreconditionFailuresChangeNothing ==
    [][(\/ /\ last'.op \in {"create_edge", "create_block"}
           /\ NodeMissing(graph, last'.from) \/ NodeMissing(graph, last'.to)
        \/ /\ last'.op \in {"set_node_data", "patch_node"}
           /\ NodeMissing(graph, last'.from)
        \/ /\ last'.op \in {"set_edge_data", "patch_edge"}
           /\ EdgeMissing(graph, last'.from, last'.to))
       => /\ last'.code = "NOT_FOUND"
          /\ db' = db
          /\ graph' = graph
    ]_vars

\* set_node_data on a soft-deleted node, whose row the store still has, has
\* been answered NOT_FOUND.
PreconditionFailuresChangeNothingWitness ==
    /\ last.op = "set_node_data"
    /\ last.code = "NOT_FOUND"
    /\ encode_component(last.from) \in db.nodes
    /\ NodeRow(db, last.from, STATUS_KEY) = Some(STATUS_DELETED)
    /\ NodeMissing(graph, last.from)

\* C18 (status is always present): in every committed state of the store,
\* every key of the nodes table has a status row in node_data and every key
\* of the edges table a status row in edge_data.
StatusAlwaysPresent ==
    /\ \A nk \in db.nodes : (nk \o <<KEY_SEP>> \o encode_component(STATUS_KEY)) \in DOMAIN db.node_data
    /\ \A ek \in db.edges : (ek \o <<KEY_SEP>> \o encode_component(STATUS_KEY)) \in DOMAIN db.edge_data

\* id stands in the comma-separated text as an item, blanks around it aside.
ListedIn(text, id) ==
    \E a \in DOMAIN text :
        LET b == a + Len(id) - 1
        IN /\ b <= Len(text)
           /\ SubSeq(text, a, b) = id
           /\ \A k \in 1..(a - 1) : (\A m \in k..(a - 1) : text[m] # COMMA) => text[k] = 32
           /\ \A k \in (b + 1)..Len(text) :
                 (\A m \in (b + 1)..k : text[m] # COMMA) => text[k] = 32

\* The edge types a query excludes.
ExcludedTypes(query) ==
    IF query.exclude_edge_types.ok
    THEN {T \in {BLOCK, FOLLOW, USER, TEAM} : ListedIn(query.exclude_edge_types.v, T)}
    ELSE {}

\* The edge's type is not one of X; an edge without a type has none of them.
TypeNotIn(edge, X) == Get(edge.data, TYPE_KEY) \notin {Some(T) : T \in X}

\* The weight property of the edge as a number, 1 without one or when it is
\* no number.
WeightOf(edge) ==
    LET text == Get(edge.data, WEIGHT_KEY)
    IN IF text.ok /\ parse_f64(text.v).ok THEN parse_f64(text.v).v ELSE Num(1)

\* The two-edge paths start -> n -> c of cache g with both edges' types
\* outside X, each as the positions of its edges and their weights.
TwoEdgePaths(g, start, c, X) ==
    {<<i, j, WeightOf(g[start].neighbors[i]), WeightOf(g[g[start].neighbors[i].to].neighbors[j])>> :
        <<i, j>> \in {p \in (DOMAIN g[start].neighbors) \X (1..Cardinality(DOMAIN g)) :
            LET e1 == g[start].neighbors[p[1]]
            IN /\ TypeNotIn(e1, X)
               /\ e1.to \in DOMAIN g
               /\ p[2] \in DOMAIN g[e1.to].neighbors
               /\ g[e1.to].neighbors[p[2]].to = c
               /\ TypeNotIn(g[e1.to].neighbors[p[2]], X)}}

RECURSIVE SumOfProducts(_)
SumOfProducts(paths) ==
    IF paths = {} THEN Num(0)
    ELSE LET path == CHOOSE x \in paths : TRUE
         IN FAdd(FMul(path[3], path[4]), SumOfProducts(paths \ {path}))

\* C19 (recommendation scores): the score of every returned candidate c is
\* the sum of w1 * w2 over all two-edge paths start -> n -> c of the cache
\* whose edges both have a type the query does not exclude, an edge's weight
\* being its weight property as a number, or 1 when it has none or it does
\* not parse.
RecommendationScores ==
    (last.op = "recommend_nodes" /\ last.code = "OK") =>
        \A i \in DOMAIN last.results :
            last.results[i].score
                = SumOfProducts(TwoEdgePaths(graph, last.from, last.results[i].id,
                                             ExcludedTypes(last.query)))

\* t has been recommended to s with score 5: 1 * 2 by way of m, the first
\* edge's weight being no number, and 1 * 3 by way of n, the first edge
\* having no weight.
RecommendationScoresWitness ==
    /\ last.op = "recommend_nodes"
    /\ last.from = REC_START
    /\ Len(last.results) = 1
    /\ last.results[1].id = REC_TEAM
    /\ last.results[1].score = Num(5)
    /\ has_edge(graph, REC_START, REC_MID1)
    /\ graph[REC_START].neighbors[1].data[WEIGHT_KEY] = NOT_A_NUMBER
    /\ has_edge(graph, REC_START, REC_MID2)
    /\ WEIGHT_KEY \notin DOMAIN graph[REC_START].neighbors[2].data

\* C20 (recommendation exclusions): no result is the start node, the target
\* of an outgoing edge of the start node, whatever the edge's type, or an id
\* listed in exclude_ids; and the cached type of every result is the type
\* asked for.
RecommendationExclusions ==
    (last.op = "recommend_nodes" /\ last.code = "OK") =>
        \A i \in DOMAIN last.results :
            LET id == last.results[i].id
            IN /\ id # last.from
               /\ \A k \in DOMAIN graph[last.from].neighbors :
                     graph[last.from].neighbors[k].to # id
               /\ last.query.exclude_ids.ok => ~ListedIn(last.query.exclude_ids.v, id)
               /\ id \in DOMAIN graph
               /\ Get(graph[id].data, TYPE_KEY) = Some(last.query.type)

\* m asked for teams with t listed in exclude_ids: s, next to m, leads to the
\* teams n and t, and n alone has been recommended.
RecommendationExclusionsWitness ==
    /\ last.op = "recommend_nodes"
    /\ last.from = REC_MID1
    /\ last.query.type = TEAM
    /\ last.query.exclude_ids.ok
    /\ ListedIn(last.query.exclude_ids.v, REC_TEAM)
    /\ ~last.query.exclude_edge_types.ok
    /\ has_edge(graph, REC_MID1, REC_START)
    /\ has_edge(graph, REC_START, REC_TEAM)
    /\ has_edge(graph, REC_START, REC_MID2)
    /\ ~has_edge(graph, REC_MID1, REC_TEAM)
    /\ Len(last.results) = 1
    /\ last.results[1].id = REC_MID2

\* The order the results are to be in: x has the higher score, or the same
\* score and the lower id.
OrderedBefore(x, y) ==
    \/ FLt(y.score, x.score)
    \/ x.score = y.score /\ LexLT(x.id, y.id)

\* C21 (recommendation order is deterministic): the results whose scores
\* are numbers are sorted by score descending with ties broken by id
\* ascending, the results are the first
\* `limit` entries of what the same query without a limit returns, and the
\* same query against the same cache returns the same ordered results
\* whatever the order in which the scores map hands out its entries.
RecommendationOrderDeterministic ==
    (last.op = "recommend_nodes" /\ last.code = "OK") =>
        /\ \A i, j \in DOMAIN last.results :
               (i < j /\ ~last.results[i].score.nan /\ ~last.results[j].score.nan)
                   => OrderedBefore(last.results[i], last.results[j])
        /\ \A order \in IterationOrders(DOMAIN RecommendationScoresOf(Cur, last.query)) :
               LET all == recommend_nodes(Cur, [last.query EXCEPT !.limit = None],
                                          order).results
                   limit == last.query.limit
               IN last.results
                    = IF limit.ok /\ limit.v < Len(all) THEN SubSeq(all, 1, limit.v) ELSE all

\* Three teams have been recommended to m, the one in the middle by id with
\* a score that is not a number, and the first by id with a lower score
\* than the last.
RecommendationOrderWitness ==
    /\ last.op = "recommend_nodes"
    /\ last.from = REC_MID1
    /\ {last.results[i].id : i \in DOMAIN last.results} = {REC_MID2, REC_TEAM, REC_OTHER}
    /\ \E i, j, k \in DOMAIN last.results :
          /\ last.results[i].id = REC_MID2 /\ last.results[i].score = Num(1)
          /\ last.results[j].id = REC_TEAM /\ last.results[j].score = NaN
          /\ last.results[k].id = REC_OTHER /\ last.results[k].score = Num(3)

\* The property of the node's data under the key as a point: two numbers
\* around the first comma, a latitude of -90..90 and a longitude of
\* -180..180.
ValidPoint(data, key) ==
    LET text == Get(data, key)
        parts == SplitOn(text.v, COMMA)
        lat == parse_f64(trim(parts[1]))
        lon == parse_f64(trim(parts[2]))
    IN IF /\ text.ok /\ Len(parts) >= 2 /\ lat.ok /\ lon.ok
          /\ ~lat.v.nan /\ lat.v.v \in (0 - 90)..90
          /\ ~lon.v.nan /\ lon.v.v \in (0 - 180)..180
       THEN Some(<<lat.v, lon.v>>)
       ELSE None

\* Two points of one longitude are at most km kilometres apart.
WithinKm(origin, point, km) ==
    /\ ~origin[1].nan /\ ~origin[2].nan /\ ~km.nan
    /\ origin[2] = point[2]
    /\ METRES_PER_DEGREE * (point[1].v - origin[1].v) <= 1000 * km.v
    /\ METRES_PER_DEGREE * (origin[1].v - point[1].v) <= 1000 * km.v

\* C22 (recommendation radius filter): for a query with radius_km from a
\* node of the cache, the origin is the query's lat and lon or else the
\* point under geo_key of the start node; without an origin the reply is
\* BadRequest, and with one every returned candidate has a valid point
\* under geo_key that is at most radius_km from the origin.
RecommendationRadiusFilter ==
    (/\ last.op = "recommend_nodes"
     /\ last.query.radius_km.ok
     /\ last.from \in DOMAIN graph) =>
        LET key == IF last.query.geo_key.ok THEN last.query.geo_key.v ELSE GEO_KEY_DEFAULT
            origin == IF last.query.lat.ok /\ last.query.lon.ok
                      THEN Some(<<last.query.lat.v, last.query.lon.v>>)
                      ELSE ValidPoint(graph[last.from].data, key)
        IN IF ~origin.ok THEN last.code = "BAD_REQUEST"
           ELSE /\ last.code = "OK"
                /\ \A i \in DOMAIN last.results :
                      LET point == ValidPoint(graph[last.results[i].id].data, key)
                      IN point.ok /\ WithinKm(origin.v, point.v, last.query.radius_km.v)

\* With a radius of 10 km around the location 0,0 of s, t at 0,0 has been
\* returned and u, one degree away, has not.
RecommendationRadiusWitness ==
    /\ last.op = "recommend_nodes"
    /\ last.query.radius_km = Some(Num(10))
    /\ ~last.query.lat.ok
    /\ Get(graph[REC_START].data, GEO_KEY_DEFAULT) = Some(AT_ORIGIN)
    /\ Get(graph[REC_TEAM].data, GEO_KEY_DEFAULT) = Some(AT_ORIGIN)
    /\ Get(graph[REC_OTHER].data, GEO_KEY_DEFAULT) = Some(ONE_DEGREE)
    /\ Len(last.results) = 1
    /\ last.results[1].id = REC_TEAM

\* The table of radius and precision: a radius up to the size has at least
\* the precision.
PrecisionTable ==
    {<<477, 9>>, <<3820, 8>>, <<15300, 7>>, <<122000, 6>>, <<489000, 5>>, <<3910000, 4>>,
     <<156 * KM, 3>>, <<1250 * KM, 2>>, <<5000 * KM, 1>>}

\* The precision the table gives the radius r.
TablePrecision(r) ==
    IF r <= 0 THEN 9
    ELSE IF \A row \in PrecisionTable : row[1] < r THEN 1
    ELSE LET row == CHOOSE x \in PrecisionTable :
                        /\ x[1] >= r
                        /\ \A y \in PrecisionTable : y[1] >= r => x[1] <= y[1]
         IN row[2]

\* C23 (geohash precision follows the table): the precision computed for a
\* radius r is 9 for r <= 0, 1 for r > 5000 km, and otherwise the precision
\* of the smallest size of the table that is at least r; that of 10 km is 4.
GeohashPrecisionFollowsTable ==
    codec.op = "geohash_precision_for_km" =>
        /\ codec.key[1] = TablePrecision(codec.comps[1])
        /\ codec.comps[1] = 10 * KM => codec.key[1] = 4

\* The precision of a radius of 10 km has been computed.
GeohashPrecisionWitness ==
    /\ codec.op = "geohash_precision_for_km"
    /\ codec.comps[1] = 10 * KM

\* C24 (geohash precision is monotone): for radii r1 <= r2 the precision
\* computed for r1 is at least the one computed for r2.
GeohashPrecisionMonotone ==
    (codec.op = "geohash_precision_for_km" /\ codec.comps[1] <= codec.comps[2]) =>
        codec.key[1] >= codec.key[2]

\* The precisions of a radius within the table and of a greater one beyond
\* the table have been computed.
GeohashPrecisionMonotoneWitness ==
    /\ codec.op = "geohash_precision_for_km"
    /\ codec.comps[1] = 5000 * KM
    /\ codec.comps[2] = 5000 * KM + 1
    /\ codec.key[1] = 1
    /\ codec.key[2] = 1

\* The ids a nearby query excludes: those of its exclude_ids list and the
\* targets of the edges of an excluded type that the start node has in cache g.
NearbyExcluded(g, query) ==
    (IF query.exclude_ids.ok THEN {id \in Ids : ListedIn(query.exclude_ids.v, id)} ELSE {})
        \cup (IF query.start.ok
              THEN {g[query.start.v].neighbors[i].to :
                       i \in {j \in DOMAIN g[query.start.v].neighbors :
                                 ~TypeNotIn(g[query.start.v].neighbors[j],
                                            ExcludedTypes(query))}}
              ELSE {})

\* The stored active nodes of type T whose stored property key starts with
\* prefix.
NearbyMatches(d, key, prefix, T) ==
    {id \in PersistedActiveNodes(d) :
        /\ NodeRow(d, id, key).ok
        /\ StartsWith(NodeRow(d, id, key).v, prefix)
        /\ NodeRow(d, id, TYPE_KEY) = Some(T)}

\* C25 (nearby result): list_nearby by a geohash prefix returns, in
\* ascending order of id, the stored active nodes of the type whose stored
\* property under the key (geo_hash by default) starts with the prefix, less
\* the excluded ids: all of them without a limit, and with a limit the
\* first `limit` of them, also when ids are excluded.
NearbyResultExact ==
    (last.op = "list_nearby" /\ last.code = "OK" /\ last.query.geo_hash_prefix.ok) =>
        LET query == last.query
            key == IF query.geo_hash_key.ok THEN query.geo_hash_key.v ELSE GEO_HASH_KEY_DEFAULT
            expected == NearbyMatches(db, key, query.geo_hash_prefix.v, query.type)
                            \ NearbyExcluded(graph, query)
            returned == {last.results[i].id : i \in DOMAIN last.results}
        IN /\ \A i, j \in DOMAIN last.results :
                  i < j => LexLT(last.results[i].id, last.results[j].id)
           /\ returned \subseteq expected
           /\ \A x \in expected \ returned :
                  /\ query.limit.ok
                  /\ Len(last.results) = query.limit.v
                  /\ \A y \in returned : LexLT(y, x)

\* With a limit of 1 and the first match by id excluded, the second match
\* has been returned.
NearbyResultWitness ==
    /\ last.op = "list_nearby"
    /\ last.query.limit = Some(1)
    /\ last.query.geo_hash_prefix.ok
    /\ ~last.query.start.ok
    /\ ID_A \in NearbyExcluded(graph, last.query)
    /\ ID_A \in NearbyMatches(db, GEO_HASH_KEY_DEFAULT, last.query.geo_hash_prefix.v, TEAM)
    /\ Len(last.results) = 1
    /\ last.results[1].id = ID_B

\* C26 (soft-delete is idempotent on durable state): delete_node answers
\* NotFound exactly when the node has no row in the nodes table, and
\* delete_edge exactly when the edge has no row in the edges table; after a
\* delete that succeeded, the same delete executed again succeeds and
\* leaves every table of the store as it is.
SoftDeleteIdempotent ==
    /\ last.op = "delete_node" =>
          /\ last.code = "NOT_FOUND" <=> encode_component(last.from) \notin db.nodes
          /\ last.code # "NOT_FOUND" =>
                LET again == delete_node(Cur, last.from)
                IN again.code = "NO_CONTENT" /\ again.db = db
    /\ last.op = "delete_edge" =>
          /\ last.code = "NOT_FOUND" <=> edge_key(last.from, last.to) \notin db.edges
          /\ last.code # "NOT_FOUND" =>
                LET again == delete_edge(Cur, last.from, last.to)
                IN again.code = "NO_CONTENT" /\ again.db = db

\* delete_node has succeeded on a node that has an edge, whose status rows
\* now say deleted.
SoftDeleteIdempotentWitness ==
    /\ last.op = "delete_node"
    /\ last.code = "NO_CONTENT"
    /\ NodeRow(db, last.from, STATUS_KEY) = Some(STATUS_DELETED)
    /\ \E to \in Ids :
          /\ edge_key(last.from, to) \in db.edges
          /\ EdgeRow(db, last.from, to, STATUS_KEY) = Some(STATUS_DELETED)

\* C27 (durable-before-cache ordering): in every execution of a write
\* handler, no transaction of the handler commits after the handler has
\* made its first change to the cache.
DurableBeforeCache ==
    [][tasks'.write.commits > tasks.write.commits => ~tasks.write.cached]_vars

\* C28 (no cache lock across a commit): no transaction of a handler
\* commits while the handler holds the cache lock; the handler takes the
\* write lock only after its last commit.
NoCacheLockAcrossCommit ==
    [][tasks'.write.commits > tasks.write.commits => tasks.writer # "write"]_vars

\* The value node id has under key in cache g and in store d agree; a node
\* that is not in the cache has none to compare.
CacheAgrees(g, d, id, key) ==
    id \in DOMAIN g => Get(g[id].data, key) = NodeRow(d, id, key)

\* C29 (cache updates follow commit order): once two handlers that upsert
\* the same property of the same node have both completed, the cached value
\* of the property is the persisted one.
CacheFollowsCommitOrder ==
    (/\ tasks.write.req.op = "set_node_data"
     /\ tasks.write.pc = "done"
     /\ tasks.write.commits = 1
     /\ tasks.other.pc = "done"
     /\ tasks.other.code = "NO_CONTENT"
     /\ tasks.other.req.from = tasks.write.req.from
     /\ KeyOf(tasks.other.req) = KeyOf(tasks.write.req)) =>
        CacheAgrees(graph, db, tasks.write.req.from, KeyOf(tasks.write.req))

\* C30 (cancellation is self-repairing): when a set_node_data has been
\* cancelled between its commit and its cache update, and since then another
\* request has written to the node in the cache or the process has
\* restarted, the cache and the store agree on the property.
CancellationRepaired ==
    (/\ tasks.write.req.op = "set_node_data"
     /\ tasks.write.pc = "cancelled"
     /\ \/ last.op = "restart"
        \/ /\ last.op = "set_node_data"
           /\ last.code = "NO_CONTENT"
           /\ last.from = tasks.write.req.from) =>
        CacheAgrees(graph, db, tasks.write.req.from, KeyOf(tasks.write.req))

\* C31 (no deadlock): no handler ever holds the whitelist lock and the cache
\* lock at the same time, and every started handler eventually completes.
NoDeadlock ==
    /\ [](\A h \in Handlers :
             ~(HoldsLock(tasks.schema_lock, h) /\ HoldsLock(tasks.graph_lock, h)))
    /\ <>(\A h \in Handlers : tasks[h].pc = "done")

\* Three handlers wait at once: create_edge holds the cache's write lock and
\* waits for the store's writer, which delete_node holds, while list_nearby
\* waits for the cache lock.
NoDeadlockWitness ==
    /\ tasks.graph_lock.writer = "edge"
    /\ tasks.edge.pc = "added"
    /\ tasks.kv = "delete"
    /\ tasks.nearby.pc = "graph"
    /\ tasks.upsert.pc = "schema_write"

\* C32 (status backfill): when ensure_status_defaults has run, every node row
\* and every edge row has a status; each status it added is active and has
\* its row in node_index and geo_index, or in edge_index; the entity rows, the
\* whitelist, and every property row and index row there was are as before,
\* and nothing else was added; and a second run changes nothing.
StatusBackfill ==
    [][(tasks.phase = "rebuilt" /\ tasks'.phase = "backfilled") =>
        LET NodeIds == {id \in Ids : encode_component(id) \in db.nodes}
            EdgeIds == {e \in Ids \X Ids : edge_key(e[1], e[2]) \in db.edges}
            NewNodes == {id \in NodeIds : ~NodeRow(db, id, STATUS_KEY).ok}
            NewEdges == {e \in EdgeIds : ~EdgeRow(db, e[1], e[2], STATUS_KEY).ok}
        IN /\ \A id \in NodeIds : NodeRow(db', id, STATUS_KEY).ok
           /\ \A e \in EdgeIds : EdgeRow(db', e[1], e[2], STATUS_KEY).ok
           /\ \A id \in NewNodes :
                 /\ NodeRow(db', id, STATUS_KEY) = Some(STATUS_ACTIVE)
                 /\ node_index_key(STATUS_KEY, STATUS_ACTIVE, id) \in db'.node_index
                 /\ geo_index_key(STATUS_KEY, STATUS_ACTIVE, id) \in db'.geo_index
           /\ \A e \in NewEdges :
                 /\ EdgeRow(db', e[1], e[2], STATUS_KEY) = Some(STATUS_ACTIVE)
                 /\ edge_index_key(STATUS_KEY, STATUS_ACTIVE, e[1], e[2]) \in db'.edge_index
           /\ db'.nodes = db.nodes /\ db'.edges = db.edges /\ db'.schema = db.schema
           /\ \A k \in DOMAIN db.node_data : db'.node_data[k] = db.node_data[k]
           /\ \A k \in DOMAIN db.edge_data : db'.edge_data[k] = db.edge_data[k]
           /\ DOMAIN db'.node_data =
                 DOMAIN db.node_data \cup {node_data_key(id, STATUS_KEY) : id \in NewNodes}
           /\ DOMAIN db'.edge_data =
                 DOMAIN db.edge_data
                    \cup {edge_data_key(e[1], e[2], STATUS_KEY) : e \in NewEdges}
           /\ db'.node_index =
                 db.node_index
                    \cup {node_index_key(STATUS_KEY, STATUS_ACTIVE, id) : id \in NewNodes}
           /\ db'.geo_index =
                 db.geo_index
                    \cup {geo_index_key(STATUS_KEY, STATUS_ACTIVE, id) : id \in NewNodes}
           /\ db'.edge_index =
                 db.edge_index
                    \cup {edge_index_key(STATUS_KEY, STATUS_ACTIVE, e[1], e[2]) :
                             e \in NewEdges}
           /\ ensure_status_defaults(db') = db'
           /\ (NewNodes = {} /\ NewEdges = {}) => db' = db]_vars

\* The backfill has given a status to node a, which had a type and no status,
\* and to the edge a->c, which had its row in edges alone; node c kept its
\* status deleted.
StatusBackfillWitness ==
    /\ tasks.phase = "backfilled"
    /\ ops = 0
    /\ NodeRow(db, ID_A, TYPE_KEY) = Some(USER)
    /\ NodeRow(db, ID_A, STATUS_KEY) = Some(STATUS_ACTIVE)
    /\ node_index_key(TYPE_KEY, TEAM, ID_A) \notin db.node_index
    /\ NodeRow(db, ID_C, STATUS_KEY) = Some(STATUS_DELETED)
    /\ DOMAIN load_edge_data_for_edge(db, ID_A, ID_C) = {STATUS_KEY}
    /\ edge_key(ID_C, ID_A) \notin db.edges

\* C33 (cache construction): the cache load_graph builds of a store with
\* coherent indexes has the nodes whose status is active, each edge whose
\* status is active and whose two ends are active nodes, once, and on every
\* node and edge the persisted properties the whitelist lets through.
CacheConstruction ==
    tasks.phase = "serving" =>
        /\ DOMAIN graph = PersistedActiveNodes(db)
        /\ CachedEdges(graph) = PersistedActiveEdges(db)
        /\ \A id \in DOMAIN graph :
              /\ graph[id].data = filter_node_data(schema, load_node_data_for_id(db, id))
              /\ Cardinality({edge.to : edge \in Range(graph[id].neighbors)})
                    = Len(graph[id].neighbors)
              /\ \A edge \in Range(graph[id].neighbors) :
                    edge.data = filter_edge_data(schema,
                                                 load_edge_data_for_edge(db, id, edge.to))

\* The cache of a store that whitelists the edge property weight: a and c are
\* cached, a with the edge to c and its weight and without its status; the
\* edge c->a, deleted in the store, is not cached.
CacheConstructionWitness ==
    /\ tasks.phase = "serving"
    /\ IndexCoherence
    /\ schema.edge_defined
    /\ DOMAIN graph = {ID_A, ID_C}
    /\ has_edge(graph, ID_A, ID_C)
    /\ ~has_edge(graph, ID_C, ID_A)
    /\ edge_key(ID_C, ID_A) \in db.edges
    /\ \A edge \in Range(graph[ID_A].neighbors) : edge.data = Map1(WEIGHT_KEY, TWO)
    /\ EdgeRow(db, ID_A, ID_C, STATUS_KEY) = Some(STATUS_ACTIVE)

\* C34 (path search terminates): on every cache, with cycles and self-loops,
\* and for every start and end, exist_path returns, and the search has been
\* called on no node twice: on the start, and after it on cached nodes only.
PathSearchTerminates ==
    last.op = "check_path" =>
        /\ last.found \in BOOLEAN
        /\ \A i, j \in DOMAIN last.calls : last.calls[i] = last.calls[j] => i = j
        /\ last.calls[1] = last.from
        /\ \A i \in DOMAIN last.calls : i > 1 => last.calls[i] \in DOMAIN graph
        /\ Len(last.calls) <= Cardinality(DOMAIN graph \cup {last.from})

\* A search from a to a missing node on the cache with a self-loop on a, the
\* cycle b->c->b and the edges a->b and a->c: it ends having been called once
\* on each of a, b and c.
PathSearchTerminatesWitness ==
    /\ last.op = "check_path"
    /\ last.from = ID_A /\ last.to = REC_MISSING
    /\ has_edge(graph, ID_A, ID_A)
    /\ has_edge(graph, ID_A, ID_B) /\ has_edge(graph, ID_A, ID_C)
    /\ has_edge(graph, ID_B, ID_C) /\ has_edge(graph, ID_C, ID_B)
    /\ last.calls = <<ID_A, ID_B, ID_C>>
    /\ ~last.found

\* C35 (a whitelist rebuild loses no concurrent write): when a write handler
\* has committed, changed the cache and returned while upsert_schema was
\* between its load_graph and the replacement of the cache, then, both
\* handlers having returned, the cache is what load_graph builds of the store.
RebuildKeepsConcurrentWrite ==
    (/\ tasks.upsert.pc = "done"
     /\ tasks.write.pc = "done"
     /\ tasks.write.cached
     /\ tasks.write.committed_at = "loaded"
     /\ tasks.write.done_at = "loaded")
        => graph = load_graph(db, schema)

\* C36 (no dangling cached edges): in every state the handlers reach, however
\* their steps interleave, every edge of the cache leads to a node of the
\* cache.
NoDanglingEdges ==
    \A id \in DOMAIN graph :
        \A edge \in Range(graph[id].neighbors) : edge.to \in DOMAIN graph

\* C37 (get_node and list_nodes agree): after any run of requests, for every
\* id and either value of hydrate, get_node finds id exactly when list_nodes
\* has an entry for it, and then with the property map and the set of
\* outgoing edges, targets and properties, of that entry.
NodeReadsAgree ==
    \A id \in Ids, h \in Hydrate :
        LET r == get_node(Cur, id, h)
            entries == {view \in Range(list_nodes(Cur, None, h)) : view.id = id}
        IN /\ r.ok <=> entries # {}
           /\ \A view \in entries :
                 /\ view.data = r.v.data
                 /\ Range(view.edges) = Range(r.v.edges)

\* C38 (a soft delete by property write hides the edges of the node): once
\* set_node_data(id, status, deleted) or patch_node(id, {status: deleted}) has
\* answered, no list_edges result has an edge from or to id, and no edge list
\* of get_node or list_nodes has an edge from or to id, as after delete_node.
SoftDeleteByWriteHidesEdges ==
    [][(/\ last'.op \in {"set_node_data", "patch_node"}
        /\ last'.code = "NO_CONTENT"
        /\ IsDeletedData(last'.data))
          => LET st == [db |-> db', graph |-> graph', schema |-> schema']
                 id == last'.from
             IN /\ \A t \in EdgeTypeFilters, f \in IdFilters, g \in IdFilters, h \in Hydrate :
                      \A edge \in Range(list_edges(st, t, f, g, h)) :
                          edge.from # id /\ edge.to # id
                /\ \A n \in Ids, h \in Hydrate :
                      LET r == get_node(st, n, h)
                      IN r.ok => /\ n # id
                                 /\ \A edge \in Range(r.v.edges) : edge.to # id
                /\ \A t \in NodeTypeFilters, h \in Hydrate :
                      \A view \in Range(list_nodes(st, t, h)) :
                          /\ view.id # id
                          /\ \A edge \in Range(view.edges) : edge.to # id
      ]_vars

\* C39: a storage failure leaves the cache untouched: when a transaction of a
\* write handler fails, the handler answers 500 and the cache is exactly as it
\* was before the handler started.
StorageFailureLeavesCache ==
    [][last'.code = "INTERNAL_SERVER_ERROR" => graph' = graph]_vars

\* A cache within its capacity whose order holds the keys of map, each once.
LruShape(cache) ==
    /\ cache.capacity >= 1
    /\ Cardinality(DOMAIN cache.map) <= cache.capacity
    /\ Range(cache.order) = DOMAIN cache.map
    /\ Len(cache.order) = Cardinality(DOMAIN cache.map)

\* C40: the decode LRU is bounded and strictly least-recently-used: after any
\* sequence of get and insert calls on a cache of capacity c >= 1 the map
\* holds at most c entries and the recency queue holds exactly the map's keys,
\* each once; inserting a new key into a full cache evicts exactly the key
\* whose last get or insert is the oldest; and decode_component_cached(v, cache)
\* returns what decode_component(v) returns, for every v and every cache state.
StrictLru ==
    /\ LruShape(tasks.cache)
    /\ LruShape(tasks.decode_cache)
    /\ last.op \in {"insert", "decode_component_cached"} =>
          /\ last.full => last.evicted = last.oldest /\ Cardinality(last.evicted) = 1
          /\ ~last.full => last.evicted = {}
    /\ last.op = "get" => last.result = Get(tasks.cache.map, last.key)
    /\ last.op = "decode_component_cached" => last.result = decode_component(last.key)

\* A full cache of capacity 2 has evicted on insert the key that was used
\* longest ago although an earlier-inserted key stays, and the decode cache
\* holds a decoding.
StrictLruWitness ==
    /\ last.op = "insert" /\ last.full /\ last.outlived
    /\ tasks.cache.capacity = 2
    /\ tasks.decode_cache.map # EmptyMap

====
